---- MODULE Spec2Model ----
(***************************************************************************)
(* Ladder Draw: the ladder generator (js/ladder.js) and the application    *)
(* controller (js/main.js) as state machines.                              *)
(*                                                                         *)
(* JS arrays of rungs are TLA+ sequences (1-indexed); JS arrays and        *)
(* objects indexed by column / participant are functions on 0..n-1.        *)
(* Every Math.random() comparison is a nondeterministic choice: a          *)
(* function with random choices is the SET of its possible results.        *)
(***************************************************************************)
EXTENDS Integers, Sequences, FiniteSets, TLC

\* ---------------------------------------------------------------- bounds
MaxN == 4            \* largest participant count in the generate pipeline
FullN == 3           \* up to this many columns every random outcome is explored
NaturalDrawRows == 4 \* beyond FullN columns: natural rungs only in the last rows
FillDrawRows == 8    \* beyond FullN columns: decorative pairs only in the last rows
MaxShuffleN == 5     \* largest n in the stand-alone shuffle
MaxAdjN == 4         \* largest n for the adjustment computer
MaxPlaceCols == 4    \* largest numColumns for the adjustment placer
MaxTransLen == 4     \* longest transposition list handed to the placer
MaxStartRow == 1     \* largest startRow handed to the placer
MaxFillCols == 4     \* largest numColumns for the decorative filler
MaxFillRows == 5     \* largest numRows for the decorative filler
MaxParticipantLines == 2 \* most lines in the participants textarea
MaxResultLines == 3  \* most lines in the results textarea
MaxFillLines == 2    \* longest input rung list for the decorative filler
MaxValLen == 3       \* longest short list handed to validateInputs
MaxShareNameLen == 2 \* longest name in a shared ladder
MaxLoopN == 4        \* largest n for the loops of the adjustment steps
MaxPendingReads == 1  \* most FileReader reads in flight at once
MaxTraceCols == 4     \* most columns of a rung list handed to calculateMapping
MaxTraceRows == 2     \* most rows of such a list
MaxTraceLines == 3    \* most rungs in such a list

\* ------------------------------------------------------- CONFIG (ladder.js)
MIN_ROWS == 6
ROWS_PER_PARTICIPANT == 3
MAX_ROWS == 200

\* ---------------------------------------------------------------- helpers
Max(a, b) == IF a >= b THEN a ELSE b
Min(a, b) == IF a <= b THEN a ELSE b
SetMin(S) == CHOOSE x \in S : \A y \in S : x <= y
SetMax(S) == CHOOSE x \in S : \A y \in S : x >= y

\* a local that is not assigned yet, and `null`
Unset == <<>>
Null == [null |-> TRUE]

\* the outcome of a step that can throw
Thrown == [ok |-> FALSE, val |-> <<>>]
Value(v) == [ok |-> TRUE, val |-> v]

\* { fromColumn: col, row: row }
Line(col, row) == [fromColumn |-> col, row |-> row]


\* ------------------------------------------------ generateRandomMapping(n)
\* [...Array(n).keys()]
Keys(n) == [i \in 0 .. n - 1 |-> i]

\* faulty variant: j drawn from the whole array
JRangeNaive(i, n) == 0 .. n - 1

\* Math.floor(Math.random() * (i + 1)) with Math.random() in [0, 1)
JRange(i, n) == 0 .. i

\* faulty variant: an assignment in place of the swap
ShuffleSwapLossy(shuffled, i, j) == [shuffled EXCEPT ![i] = shuffled[j]]

\* [shuffled[i], shuffled[j]] = [shuffled[j], shuffled[i]]
ShuffleSwap(shuffled, i, j) == [shuffled EXCEPT ![i] = shuffled[j], ![j] = shuffled[i]]

\* the second loop: mapping[shuffled[i]] = i for i = 0..n-1 (a later
\* assignment to the same key overwrites an earlier one)
MappingOf(shuffled, n) ==
    [k \in {shuffled[i] : i \in 0 .. n - 1} |->
        SetMax({i \in 0 .. n - 1 : shuffled[i] = k})]

\* the first loop from index i downwards, every outcome of the choices
RECURSIVE ShuffleFrom(_, _, _)
ShuffleFrom(shuffled, i, n) ==
    IF i > 0
    THEN UNION {ShuffleFrom(ShuffleSwap(shuffled, i, j), i - 1, n) : j \in JRange(i, n)}
    ELSE {shuffled}

generateRandomMapping(n) ==
    {MappingOf(s, n) : s \in ShuffleFrom(Keys(n), n - 1, n)}

\* -------------------------------------- generateRandomLines(numColumns, numRows)
\* faulty variant: only the column to the right is tested
ColumnsUsedRightOnly(usedColumns, col) == (col + 1) \in usedColumns

\* usedColumns.has(col) || usedColumns.has(col + 1)
ColumnsUsed(usedColumns, col) == col \in usedColumns \/ (col + 1) \in usedColumns

\* the outcomes of `Math.random() < CONFIG.LINE_DENSITY` at a row: both, except
\* that for ladders wider than FullN columns the draw comes out below the
\* density only in the last NaturalDrawRows rows
LineDraws(numColumns, numRows, row) ==
    IF numColumns <= FullN \/ row >= numRows - NaturalDrawRows
    THEN {TRUE, FALSE}
    ELSE {FALSE}

\* the inner loop over col for one row: the set of rung lists it can push
RECURSIVE ScanRow(_, _, _, _, _)
ScanRow(numColumns, numRows, row, col, usedColumns) ==
    IF ~(col < numColumns - 1) THEN {<<>>}
    ELSE IF ColumnsUsed(usedColumns, col)
    THEN ScanRow(numColumns, numRows, row, col + 1, usedColumns)
    ELSE UNION {
           IF below
           THEN {<<Line(col, row)>> \o rest :
                   rest \in ScanRow(numColumns, numRows, row, col + 1,
                                    usedColumns \cup {col, col + 1})}
           ELSE ScanRow(numColumns, numRows, row, col + 1, usedColumns)
           : below \in LineDraws(numColumns, numRows, row)}

\* the outer loop from `row` on
RECURSIVE RandomLinesFrom(_, _, _)
RandomLinesFrom(numColumns, numRows, row) ==
    IF ~(row < numRows) THEN {<<>>}
    ELSE {r \o rest : r \in ScanRow(numColumns, numRows, row, 0, {}),
                      rest \in RandomLinesFrom(numColumns, numRows, row + 1)}

FirstNaturalRow == 1
generateRandomLines(numColumns, numRows) ==
    RandomLinesFrom(numColumns, numRows, FirstNaturalRow)

\* ---------------------- calculateMapping(numColumns, numRows, horizontalLines)
\* linesByRow[row]: the lines of that row in list order; rows outside
\* 0..numRows-1 have no bucket and their lines are dropped
LinesByRow(horizontalLines, numRows, row) ==
    IF row \in 0 .. numRows - 1
    THEN SelectSeq(horizontalLines, LAMBDA l : l.row = row)
    ELSE <<>>

\* faulty variant: the branch that moves left is missing
RECURSIVE MoveAtRowRightOnly(_, _, _)
MoveAtRowRightOnly(linesAtRow, k, currentCol) ==
    IF k > Len(linesAtRow) THEN currentCol
    ELSE IF linesAtRow[k].fromColumn = currentCol THEN currentCol + 1
    ELSE MoveAtRowRightOnly(linesAtRow, k + 1, currentCol)

\* for (const line of linesAtRow) { ... break; }: the first line that touches
\* currentCol decides the move
RECURSIVE MoveAtRow(_, _, _)
MoveAtRow(linesAtRow, k, currentCol) ==
    IF k > Len(linesAtRow) THEN currentCol
    ELSE IF linesAtRow[k].fromColumn = currentCol THEN currentCol + 1
    ELSE IF linesAtRow[k].fromColumn = currentCol - 1 THEN currentCol - 1
    ELSE MoveAtRow(linesAtRow, k + 1, currentCol)

RECURSIVE TraceFrom(_, _, _, _)
TraceFrom(horizontalLines, numRows, row, currentCol) ==
    IF ~(row < numRows) THEN currentCol
    ELSE TraceFrom(horizontalLines, numRows, row + 1,
                   MoveAtRow(LinesByRow(horizontalLines, numRows, row), 1, currentCol))

calculateMapping(numColumns, numRows, horizontalLines) ==
    [startCol \in 0 .. numColumns - 1 |->
        TraceFrom(horizontalLines, numRows, 0, startCol)]

\* ------------- calculateAdjustmentTranspositions(actualMapping, targetMapping, n)
\* what indexOf returns when nothing is found, and what an array hole reads as
NotFound == 0 - 1

\* faulty variant: the mapping read as position -> participant
PositionToParticipantDirect(mapping, n) == [pos \in 0 .. n - 1 |-> mapping[pos]]

\* new Array(n); for p = 0..n-1: perm[mapping[p]] = p  (position -> participant)
PositionToParticipant(mapping, n) ==
    [pos \in 0 .. n - 1 |->
        IF \E p \in 0 .. n - 1 : mapping[p] = pos
        THEN SetMax({p \in 0 .. n - 1 : mapping[p] = pos})
        ELSE NotFound]

\* working.indexOf(x)
IndexOf(working, n, x) ==
    IF \E i \in 0 .. n - 1 : working[i] = x
    THEN SetMin({i \in 0 .. n - 1 : working[i] = x})
    ELSE NotFound

\* faulty variant: the right-hand column of the swap
SwapColumnRight(currentPos) == currentPos

\* the column pushed for the swap of positions currentPos-1 and currentPos
SwapColumn(currentPos) == currentPos - 1

\* faulty variant: one assignment in place of the swap
SwapAdjacentLossy(working, currentPos) ==
    [working EXCEPT ![currentPos - 1] = working[currentPos]]

\* [working[currentPos - 1], working[currentPos]] =
\*     [working[currentPos], working[currentPos - 1]]
SwapAdjacent(working, currentPos) ==
    [working EXCEPT ![currentPos - 1] = working[currentPos],
                    ![currentPos] = working[currentPos - 1]]

\* while (currentPos > pos) { swap; push; currentPos-- }
RECURSIVE Bubble(_, _, _, _)
Bubble(working, transpositions, currentPos, pos) ==
    IF currentPos > pos
    THEN Bubble(SwapAdjacent(working, currentPos),
                Append(transpositions, SwapColumn(currentPos)),
                currentPos - 1, pos)
    ELSE [working |-> working, transpositions |-> transpositions]

\* faulty variant: always bubble from the last position
BubbleSourceLast(working, n, x) == n - 1

\* where the search for targetPerm[pos] starts from: the whole array
BubbleSource(working, n, x) == IndexOf(working, n, x)

\* for (let pos = 0; pos < n; pos++) { ... }
RECURSIVE AdjustFrom(_, _, _, _, _)
AdjustFrom(working, transpositions, pos, targetPerm, n) ==
    IF ~(pos < n) THEN transpositions
    ELSE LET b == Bubble(working, transpositions,
                         BubbleSource(working, n, targetPerm[pos]), pos)
         IN AdjustFrom(b.working, b.transpositions, pos + 1, targetPerm, n)

calculateAdjustmentTranspositions(actualMapping, targetMapping, n) ==
    AdjustFrom(PositionToParticipant(actualMapping, n), <<>>, 0,
               PositionToParticipant(targetMapping, n), n)

\* ------------- addAdjustmentLines(lines, transpositions, startRow, numColumns)
\* faulty variant: only the left column is tested
RowAdmitsLeftOnly(usedCols, col) == col \notin usedCols

\* !usedCols.has(col) && !usedCols.has(col + 1)
RowAdmits(usedCols, col) == col \notin usedCols /\ (col + 1) \notin usedCols

\* faulty variant: the scan starts one row too late
ScanStartNext(minRowIdx) == minRowIdx + 1

\* faulty variant: the scan restarts at the first adjustment row
ScanStartZero(minRowIdx) == 0

\* for (let i = minRowIdx; ...): the first row index the scan looks at
ScanStart(minRowIdx) == minRowIdx

\* the state of the loop: result, rows (rows[i] of the code is rows[i + 1]
\* here), minRowIdx
PlaceInit(lines) == [result |-> lines, rows |-> <<>>, minRowIdx |-> 0]

\* one iteration of `for (const col of transpositions)`
PlaceOne(st, col, startRow) ==
    LET admitting == {i \in ScanStart(st.minRowIdx) .. Len(st.rows) - 1 :
                        RowAdmits(st.rows[i + 1], col)}
    IN IF admitting # {}
       THEN LET i == SetMin(admitting)
            IN [result |-> Append(st.result, Line(col, startRow + i)),
                rows |-> [st.rows EXCEPT ![i + 1] = @ \cup {col, col + 1}],
                minRowIdx |-> i]
       ELSE [result |-> Append(st.result, Line(col, startRow + (Len(st.rows) + 1) - 1)),
             rows |-> Append(st.rows, {col, col + 1}),
             minRowIdx |-> (Len(st.rows) + 1) - 1]

RECURSIVE PlaceAll(_, _, _, _)
PlaceAll(st, transpositions, k, startRow) ==
    IF k > Len(transpositions) THEN st
    ELSE PlaceAll(PlaceOne(st, transpositions[k], startRow), transpositions, k + 1, startRow)

\* const totalRows = startRow + Math.max(1, rows.length)
PlaceFinal(st, startRow) ==
    [lines |-> st.result, numRows |-> startRow + Max(1, Len(st.rows))]

addAdjustmentLines(lines, transpositions, startRow, numColumns) ==
    PlaceFinal(PlaceAll(PlaceInit(lines), transpositions, 1, startRow), startRow)

\* ------------------- fillWithDecorativePairs(lines, numRows, numColumns)
\* usedByRow as the set of <<row, column>> with usedByRow.get(row).has(column)
UsedByRowOf(lines) ==
    UNION {{<<lines[k].row, lines[k].fromColumn>>,
            <<lines[k].row, lines[k].fromColumn + 1>>} : k \in 1 .. Len(lines)}

\* faulty variant: the next row is not tested
PairBlockedThisRowOnly(used, row, col) ==
    <<row, col>> \in used \/ <<row, col + 1>> \in used

\* the two `continue` tests of the column loop
PairBlocked(used, row, col) ==
    \/ <<row, col>> \in used \/ <<row, col + 1>> \in used
    \/ <<row + 1, col>> \in used \/ <<row + 1, col + 1>> \in used

\* faulty variant: the second rung one column to the right
PairSecondShifted(col, row) == Line(col + 1, row + 1)

\* the second rung of a canceling pair
PairSecond(col, row) == Line(col, row + 1)

FirstFillRow == 1
FillRowStep == 2

\* the outcomes of `Math.random() < CONFIG.FILL_DENSITY` at a row: both, except
\* that for ladders wider than FullN columns the draw comes out below the
\* density only in the last FillDrawRows rows
FillDraws(numColumns, numRows, row) ==
    IF numColumns <= FullN \/ row >= numRows - FillDrawRows
    THEN {TRUE, FALSE}
    ELSE {FALSE}

\* both loops from (row, col) on: the set of results the random choices allow
RECURSIVE FillFrom(_, _, _, _, _, _)
FillFrom(result, used, row, col, numRows, numColumns) ==
    IF ~(row < numRows - 1) THEN {result}
    ELSE IF ~(col < numColumns - 1)
    THEN FillFrom(result, used, row + FillRowStep, 0, numRows, numColumns)
    ELSE IF PairBlocked(used, row, col)
    THEN FillFrom(result, used, row, col + 1, numRows, numColumns)
    ELSE UNION {
           IF below
           THEN FillFrom(result \o <<Line(col, row), PairSecond(col, row)>>,
                         used \cup {<<row, col>>, <<row, col + 1>>,
                                    <<row + 1, col>>, <<row + 1, col + 1>>},
                         row, col + 1, numRows, numColumns)
           ELSE FillFrom(result, used, row, col + 1, numRows, numColumns)
           : below \in FillDraws(numColumns, numRows, row)}

\* faulty variant: the row loop runs one row further
fillWithDecorativePairsOneRowMore(lines, numRows, numColumns) ==
    FillFrom(lines, UsedByRowOf(lines), FirstFillRow, 0, numRows + 1, numColumns)

fillWithDecorativePairs(lines, numRows, numColumns) ==
    FillFrom(lines, UsedByRowOf(lines), FirstFillRow, 0, numRows, numColumns)

\* ------------------------------------------------------------- generate
\* faulty variant: the comparison looks at the row only
LineBeforeRowOnly(a, b) == a.row < b.row

\* filledLines.sort((a, b) => a.row - b.row || a.fromColumn - b.fromColumn)
LineBefore(a, b) ==
    a.row < b.row \/ (a.row = b.row /\ a.fromColumn < b.fromColumn)

RECURSIVE InsertSorted(_, _)
InsertSorted(sorted, l) ==
    IF sorted = <<>> THEN <<l>>
    ELSE IF LineBefore(l, sorted[Len(sorted)])
    THEN Append(InsertSorted(SubSeq(sorted, 1, Len(sorted) - 1), l), sorted[Len(sorted)])
    ELSE Append(sorted, l)

RECURSIVE SortLinesFrom(_, _, _)
SortLinesFrom(sorted, lines, k) ==
    IF k > Len(lines) THEN sorted
    ELSE SortLinesFrom(InsertSorted(sorted, lines[k]), lines, k + 1)

SortLines(lines) == SortLinesFrom(<<>>, lines, 1)

\* Math.max(MIN_ROWS, Math.min(MAX_ROWS, Math.round(numColumns * ROWS_PER_PARTICIPANT)))
BaseRows(numColumns) ==
    Max(MIN_ROWS, Min(MAX_ROWS, numColumns * ROWS_PER_PARTICIPANT))

\* the row count handed to the filler and returned as `rows`
TotalRows(numRows) == numRows + 1

\* faulty variant: the column count and the row count change places
LadderDataSwappedCounts(participants, results, numColumns, numRows, filledLines, targetMapping) ==
    [participants |-> participants,
     results |-> results,
     verticalLines |-> TotalRows(numRows),
     rows |-> numColumns,
     horizontalLines |-> filledLines,
     mapping |-> targetMapping]

\* the returned object
LadderData(participants, results, numColumns, numRows, filledLines, targetMapping) ==
    [participants |-> participants,
     results |-> results,
     verticalLines |-> numColumns,
     rows |-> TotalRows(numRows),
     horizontalLines |-> filledLines,
     mapping |-> targetMapping]

\* generate(participants, results) as a whole: every structure it can return
generate(participantList, resultList) ==
    LET nc == Len(participantList)
        base == BaseRows(nc)
    IN UNION {
         LET actual == calculateMapping(nc, base, natural)
             adj == calculateAdjustmentTranspositions(actual, target, nc)
             placed == addAdjustmentLines(natural, adj, base, nc)
         IN {LadderData(participantList, resultList, nc, placed.numRows,
                        SortLines(filled), target) :
               filled \in fillWithDecorativePairs(placed.lines,
                                                  TotalRows(placed.numRows), nc)}
         : natural \in generateRandomLines(nc, base),
           target \in generateRandomMapping(nc)}

\* ------------------------------------------- getAllResults(ladderData)
\* results[resultIndex] || '': the entry (an empty one is '' already), or
\* '' where there is none
ResultAt(resultList, resultIndex) ==
    IF resultIndex + 1 \in DOMAIN resultList
    THEN resultList[resultIndex + 1]
    ELSE <<>>

getAllResults(ladderData) ==
    [k \in 1 .. Len(ladderData.participants) |->
        [participant |-> ladderData.participants[k],
         result |-> ResultAt(ladderData.results, ladderData.mapping[k - 1]),
         participantIndex |-> k - 1,
         resultIndex |-> ladderData.mapping[k - 1]]]

\* ------------------------------------- tracePath(ladderData, startColumn)
\* { col, row }, { col, row, beforeMove: true }, { col, row, afterMove: true }
Waypoint(col, row, tag) == [col |-> col, row |-> row, tag |-> tag]

\* faulty variant: the waypoint after a move to the left is not pushed
RECURSIVE PathAtRowNoAfterLeft(_, _, _, _)
PathAtRowNoAfterLeft(linesAtRow, k, currentCol, row) ==
    IF k > Len(linesAtRow)
    THEN [col |-> currentCol, points |-> <<Waypoint(currentCol, row, "none")>>]
    ELSE IF linesAtRow[k].fromColumn = currentCol
    THEN [col |-> currentCol + 1,
          points |-> <<Waypoint(currentCol, row, "beforeMove"),
                       Waypoint(currentCol + 1, row, "afterMove")>>]
    ELSE IF linesAtRow[k].fromColumn = currentCol - 1
    THEN [col |-> currentCol - 1,
          points |-> <<Waypoint(currentCol, row, "beforeMove")>>]
    ELSE PathAtRowNoAfterLeft(linesAtRow, k + 1, currentCol, row)

\* one pass of the inner loop and the if (!moved) after it: the column
\* after the row and the waypoints pushed for it
RECURSIVE PathAtRow(_, _, _, _)
PathAtRow(linesAtRow, k, currentCol, row) ==
    IF k > Len(linesAtRow)
    THEN [col |-> currentCol, points |-> <<Waypoint(currentCol, row, "none")>>]
    ELSE IF linesAtRow[k].fromColumn = currentCol
    THEN [col |-> currentCol + 1,
          points |-> <<Waypoint(currentCol, row, "beforeMove"),
                       Waypoint(currentCol + 1, row, "afterMove")>>]
    ELSE IF linesAtRow[k].fromColumn = currentCol - 1
    THEN [col |-> currentCol - 1,
          points |-> <<Waypoint(currentCol, row, "beforeMove"),
                       Waypoint(currentCol - 1, row, "afterMove")>>]
    ELSE PathAtRow(linesAtRow, k + 1, currentCol, row)

\* for (let row = 0; row < ladderData.rows; row++) and the last push
RECURSIVE PathFrom(_, _, _)
PathFrom(ladderData, row, currentCol) ==
    IF ~(row < ladderData.rows)
    THEN <<Waypoint(currentCol, ladderData.rows, "none")>>
    ELSE LET step == PathAtRow(LinesByRow(ladderData.horizontalLines, ladderData.rows, row),
                               1, currentCol, row)
         IN step.points \o PathFrom(ladderData, row + 1, step.col)

tracePath(ladderData, startColumn) ==
    <<Waypoint(startColumn, 0 - 1, "none")>> \o PathFrom(ladderData, 0, startColumn)

\* --------------------- renderer.js: computeHighlightPath(ladderData, startCol)
\* `${currentCol}-${row}` and `${row}-${line.fromColumn}`
VerticalKey(col, row) == <<col, row>>
HorizontalKey(row, fromColumn) == <<row, fromColumn>>

\* linesByRow[line.row].push(line) has no guard: a line whose row has no
\* bucket makes it throw
HighlightThrows(ladderData) ==
    \E k \in 1 .. Len(ladderData.horizontalLines) :
        ladderData.horizontalLines[k].row \notin 0 .. ladderData.rows - 1

\* faulty variant: the branch that moves left is missing
RECURSIVE HighlightAtRowRightOnly(_, _, _, _)
HighlightAtRowRightOnly(linesAtRow, k, currentCol, row) ==
    IF k > Len(linesAtRow) THEN [col |-> currentCol, horizontal |-> {}]
    ELSE IF linesAtRow[k].fromColumn = currentCol
    THEN [col |-> currentCol + 1,
          horizontal |-> {HorizontalKey(row, linesAtRow[k].fromColumn)}]
    ELSE HighlightAtRowRightOnly(linesAtRow, k + 1, currentCol, row)

\* the inner loop of one row: the column after it and the rung marked
RECURSIVE HighlightAtRow(_, _, _, _)
HighlightAtRow(linesAtRow, k, currentCol, row) ==
    IF k > Len(linesAtRow) THEN [col |-> currentCol, horizontal |-> {}]
    ELSE IF linesAtRow[k].fromColumn = currentCol
    THEN [col |-> currentCol + 1,
          horizontal |-> {HorizontalKey(row, linesAtRow[k].fromColumn)}]
    ELSE IF linesAtRow[k].fromColumn = currentCol - 1
    THEN [col |-> currentCol - 1,
          horizontal |-> {HorizontalKey(row, linesAtRow[k].fromColumn)}]
    ELSE HighlightAtRow(linesAtRow, k + 1, currentCol, row)

RECURSIVE HighlightFrom(_, _, _, _)
HighlightFrom(ladderData, row, currentCol, path) ==
    IF ~(row < ladderData.rows)
    THEN [vertical |-> path.vertical \cup {VerticalKey(currentCol, ladderData.rows)},
          horizontal |-> path.horizontal,
          endCol |-> currentCol]
    ELSE LET step == HighlightAtRow(LinesByRow(ladderData.horizontalLines,
                                               ladderData.rows, row),
                                    1, currentCol, row)
         IN HighlightFrom(ladderData, row + 1, step.col,
                          [vertical |-> path.vertical \cup {VerticalKey(currentCol, row)},
                           horizontal |-> path.horizontal \cup step.horizontal])

\* the path object, or Thrown
computeHighlightPath(ladderData, startCol) ==
    IF HighlightThrows(ladderData) THEN Thrown
    ELSE Value(HighlightFrom(ladderData, 0, startCol, [vertical |-> {}, horizontal |-> {}]))

\* ------------------------------------------------------------ main.js
\* A textarea value is the sequence of its lines (what split('\n') gives),
\* a line is a sequence of characters.
IsSpace(ch) == ch = " "

\* line.trim()
RECURSIVE TrimLeft(_)
TrimLeft(line) ==
    IF line # <<>> /\ IsSpace(Head(line)) THEN TrimLeft(Tail(line)) ELSE line

RECURSIVE TrimRight(_)
TrimRight(line) ==
    IF line # <<>> /\ IsSpace(line[Len(line)])
    THEN TrimRight(SubSeq(line, 1, Len(line) - 1))
    ELSE line

Trim(line) == TrimRight(TrimLeft(line))

\* text.split('\n').map(line => line.trim()).filter(line => line.length > 0)
parseTextareaLines(text) ==
    SelectSeq([k \in 1 .. Len(text) |-> Trim(text[k])], LAMBDA line : Len(line) > 0)

MinParticipants == 2
MinResults == 2
MaxParticipants == 100

\* an error message: which one, and the two counts the mismatch message quotes
ErrorMessage(which, np, nr) == [message |-> which, participants |-> np, results |-> nr]

\* faulty variant: the upper limit tested with >= instead of >
validateInputsInclusiveMax(participantList, resultList) ==
    IF Len(participantList) < MinParticipants
    THEN ErrorMessage("min participants", 0, 0)
    ELSE IF Len(resultList) < MinResults
    THEN ErrorMessage("min results", 0, 0)
    ELSE IF Len(participantList) # Len(resultList)
    THEN ErrorMessage("count mismatch", Len(participantList), Len(resultList))
    ELSE IF Len(participantList) >= MaxParticipants
    THEN ErrorMessage("max participants", 0, 0)
    ELSE IF Cardinality({participantList[k] : k \in 1 .. Len(participantList)})
                # Len(participantList)
    THEN ErrorMessage("duplicate participants", 0, 0)
    ELSE Null

\* validateInputs(participants, results): the message, or Null
validateInputs(participantList, resultList) ==
    IF Len(participantList) < MinParticipants
    THEN ErrorMessage("min participants", 0, 0)
    ELSE IF Len(resultList) < MinResults
    THEN ErrorMessage("min results", 0, 0)
    ELSE IF Len(participantList) # Len(resultList)
    THEN ErrorMessage("count mismatch", Len(participantList), Len(resultList))
    ELSE IF Len(participantList) > MaxParticipants
    THEN ErrorMessage("max participants", 0, 0)
    ELSE IF Cardinality({participantList[k] : k \in 1 .. Len(participantList)})
                # Len(participantList)
    THEN ErrorMessage("duplicate participants", 0, 0)
    ELSE Null

\* faulty variant: the early return is missing
StartRejectsNever(validationError) == FALSE

\* if (validationError) { showError(validationError); return; }
StartRejects(validationError) == validationError # Null

\* ------------------------------------------------------------ share.js
\* A string is the sequence of its character codes.
\* "0".."9" are 48..57, "A".."Z" 65..90, "a".."z" 97..122
IsDigit(c) == c >= 48 /\ c <= 57
IsUpper(c) == c >= 65 /\ c <= 90
IsLower(c) == c >= 97 /\ c <= 122

\* the sequences of seqs one after the other (halving keeps the recursion
\* shallow on long strings)
RECURSIVE Concat(_)
Concat(seqs) ==
    IF seqs = <<>> THEN <<>>
    ELSE IF Len(seqs) = 1 THEN seqs[1]
    ELSE Concat(SubSeq(seqs, 1, Len(seqs) \div 2))
             \o Concat(SubSeq(seqs, Len(seqs) \div 2 + 1, Len(seqs)))

\* JSON.stringify of a string: quotes around it, `"` and `\` escaped (the
\* names of this model hold no control character and no lone surrogate)
JSONQuote(str) ==
    <<34>> \o Concat([k \in 1 .. Len(str) |->
                        IF str[k] = 34 \/ str[k] = 92 THEN <<92, str[k]>> ELSE <<str[k]>>])
           \o <<34>>

\* JSON.stringify of an array of strings: [s1,s2,...]
JSONArray(list) ==
    <<91>> \o Concat([k \in 1 .. Len(list) |->
                        IF k = 1 THEN JSONQuote(list[k]) ELSE <<44>> \o JSONQuote(list[k])])
           \o <<93>>

\* JSON.stringify({ p: ..., r: ... }): {"p":[...],"r":[...]}
JSONStringify(data) ==
    <<123, 34, 112, 34, 58>> \o JSONArray(data.p)
        \o <<44, 34, 114, 34, 58>> \o JSONArray(data.r) \o <<125>>

\* the UTF-8 bytes of a code unit below 0xD800 or above 0xDFFF
Utf8(cp) ==
    IF cp < 128 THEN <<cp>>
    ELSE IF cp < 2048 THEN <<192 + (cp \div 64), 128 + (cp % 64)>>
    ELSE <<224 + (cp \div 4096), 128 + ((cp \div 64) % 64), 128 + (cp % 64)>>

\* the upper-case hexadecimal digit of d
HexDigit(d) == IF d < 10 THEN 48 + d ELSE 55 + d

\* A-Z a-z 0-9 - _ . ! ~ * ' ( )
Unreserved(c) ==
    IsDigit(c) \/ IsUpper(c) \/ IsLower(c) \/ c \in {45, 95, 46, 33, 126, 42, 39, 40, 41}

\* encodeURIComponent(s): unreserved characters as they are, every other
\* one as %XX for each of its UTF-8 bytes
encodeURIComponent(s) ==
    Concat([k \in 1 .. Len(s) |->
              IF Unreserved(s[k]) THEN <<s[k]>>
              ELSE Concat([b \in 1 .. Len(Utf8(s[k])) |->
                             <<37, HexDigit(Utf8(s[k])[b] \div 16),
                                   HexDigit(Utf8(s[k])[b] % 16)>>])])

\* the base64 character of a 6-bit value: A-Z, a-z, 0-9, +, /
Base64Char(v) ==
    IF v < 26 THEN 65 + v
    ELSE IF v < 52 THEN 97 + (v - 26)
    ELSE IF v < 62 THEN 48 + (v - 52)
    ELSE IF v = 62 THEN 43 ELSE 47

\* btoa(s) for a string of characters below 256: three bytes give four
\* characters, the last group padded with "="
btoa(s) ==
    LET n == Len(s)
        byte(k) == IF k <= n THEN s[k] ELSE 0
    IN [i \in 1 .. 4 * ((n + 2) \div 3) |->
          LET g == (i - 1) \div 4
              b1 == byte(3 * g + 1)
              b2 == byte(3 * g + 2)
              b3 == byte(3 * g + 3)
          IN CASE (i - 1) % 4 = 0 -> Base64Char(b1 \div 4)
               [] (i - 1) % 4 = 1 -> Base64Char((b1 % 4) * 16 + (b2 \div 16))
               [] (i - 1) % 4 = 2 -> IF 3 * g + 2 > n THEN 61
                                     ELSE Base64Char((b2 % 16) * 4 + (b3 \div 64))
               [] OTHER -> IF 3 * g + 3 > n THEN 61 ELSE Base64Char(b3 % 64)]

\* a string value, as opposed to Null
Text(chars) == [text |-> chars]

\* if (url.length > 2000) return null
MaxUrlLength == 2000

\* faulty variant: the mapping travels in the link as well
ShareDataWithMapping(ladderData) ==
    [p |-> ladderData.participants,
     r |-> ladderData.results \o <<[k \in 1 .. ladderData.verticalLines |->
                                      48 + ladderData.mapping[k - 1]]>>]

\* const data = { p: ladderData.participants, r: ladderData.results }
ShareData(ladderData) == [p |-> ladderData.participants, r |-> ladderData.results]

\* generateShareableURL(ladderData), location being window.location.origin
\* followed by window.location.pathname: the URL, or Null
generateShareableURL(ladderData, location) ==
    LET encoded == btoa(encodeURIComponent(JSONStringify(ShareData(ladderData))))
        url == location \o <<63, 100, 97, 116, 97, 61>> \o encoded
    IN IF Len(url) > MaxUrlLength THEN Null ELSE Text(url)

\* the first position of character c in s at or after position from, or 0
IndexOfChar(s, c, from) ==
    LET hits == {k \in from .. Len(s) : s[k] = c}
    IN IF hits = {} THEN 0 ELSE SetMin(hits)

\* new URL(urlString).search without its "?": what follows the first "?",
\* up to a "#"
URLQuery(urlString) ==
    LET q == IndexOfChar(urlString, 63, 1)
        h == IF q = 0 THEN 0 ELSE IndexOfChar(urlString, 35, q)
    IN IF q = 0 THEN <<>>
       ELSE SubSeq(urlString, q + 1, IF h = 0 THEN Len(urlString) ELSE h - 1)

\* the pieces of s between occurrences of sep
RECURSIVE SplitOn(_, _)
SplitOn(s, sep) ==
    LET k == IndexOfChar(s, sep, 1)
    IN IF k = 0 THEN <<s>>
       ELSE <<SubSeq(s, 1, k - 1)>> \o SplitOn(SubSeq(s, k + 1, Len(s)), sep)

\* the value of a hexadecimal digit, or -1
HexValue(c) ==
    IF IsDigit(c) THEN c - 48
    ELSE IF c >= 65 /\ c <= 70 THEN c - 55
    ELSE IF c >= 97 /\ c <= 102 THEN c - 87
    ELSE 0 - 1

\* the byte written %XX at position i of s, or -1 when there is none
PercentByte(s, i) ==
    IF i + 2 <= Len(s) /\ s[i] = 37 /\ HexValue(s[i + 1]) >= 0 /\ HexValue(s[i + 2]) >= 0
    THEN 16 * HexValue(s[i + 1]) + HexValue(s[i + 2])
    ELSE 0 - 1

\* the application/x-www-form-urlencoded decoding URLSearchParams applies
\* to a name or a value: "+" becomes a space, %XX the byte (the values of
\* this model are ASCII)
FormDecode(s) ==
    Concat([k \in 1 .. Len(s) |->
              IF s[k] = 43 THEN <<32>>
              ELSE IF PercentByte(s, k) >= 0 THEN <<PercentByte(s, k)>>
              ELSE IF (k > 1 /\ PercentByte(s, k - 1) >= 0)
                          \/ (k > 2 /\ PercentByte(s, k - 2) >= 0)
              THEN <<>>   \* a digit of the %XX just decoded
              ELSE <<s[k]>>])

\* url.searchParams.get(name): the value of the first pair of that name,
\* as a Text, or Null
SearchParamsGet(query, name) ==
    LET pairs == SelectSeq(SplitOn(query, 38), LAMBDA piece : piece # <<>>)
        nameOf(piece) ==
            LET e == IndexOfChar(piece, 61, 1)
            IN FormDecode(IF e = 0 THEN piece ELSE SubSeq(piece, 1, e - 1))
        valueOf(piece) ==
            LET e == IndexOfChar(piece, 61, 1)
            IN FormDecode(IF e = 0 THEN <<>> ELSE SubSeq(piece, e + 1, Len(piece)))
        hits == {k \in 1 .. Len(pairs) : nameOf(pairs[k]) = name}
    IN IF hits = {} THEN Null ELSE Text(valueOf(pairs[SetMin(hits)]))

\* the 6-bit value of a base64 character, or -1
Base64Value(c) ==
    IF IsUpper(c) THEN c - 65
    ELSE IF IsLower(c) THEN c - 97 + 26
    ELSE IF IsDigit(c) THEN c - 48 + 52
    ELSE IF c = 43 THEN 62
    ELSE IF c = 47 THEN 63
    ELSE 0 - 1

\* atob(s), the forgiving base64 decoding: ASCII whitespace is removed, then
\* one or two "=" at the end of a length that is a multiple of 4; a length
\* of 1 modulo 4 or a character outside the alphabet throws
atob(s) ==
    LET stripped == SelectSeq(s, LAMBDA c : c \notin {9, 10, 12, 13, 32})
        n0 == Len(stripped)
        pad == IF n0 % 4 = 0 /\ n0 > 0 /\ stripped[n0] = 61
               THEN IF stripped[n0 - 1] = 61 THEN 2 ELSE 1
               ELSE 0
        data == SubSeq(stripped, 1, n0 - pad)
        n == Len(data)
        v(k) == IF k <= n THEN Base64Value(data[k]) ELSE 0
        outLen == 3 * (n \div 4) + (IF n % 4 = 0 THEN 0 ELSE (n % 4) - 1)
    IN IF n % 4 = 1 \/ \E k \in 1 .. n : Base64Value(data[k]) < 0
       THEN Thrown
       ELSE Value([j \in 1 .. outLen |->
                     LET g == (j - 1) \div 3
                     IN CASE (j - 1) % 3 = 0 -> v(4 * g + 1) * 4 + (v(4 * g + 2) \div 16)
                          [] (j - 1) % 3 = 1 -> (v(4 * g + 2) % 16) * 16 + (v(4 * g + 3) \div 4)
                          [] OTHER -> (v(4 * g + 3) % 4) * 64 + v(4 * g + 4)])

\* a UTF-8 continuation byte written %XX at position i, or -1
ContinuationByte(s, i) ==
    IF PercentByte(s, i) >= 128 /\ PercentByte(s, i) <= 191
    THEN PercentByte(s, i) - 128
    ELSE 0 - 1

\* the state of decodeURIComponent's scan: the next position, the
\* characters decoded so far, and whether it has thrown
Scan(i, acc) == [ok |-> TRUE, i |-> i, acc |-> acc]
ScanThrown == [ok |-> FALSE, i |-> 0, acc |-> <<>>]

\* one step of decodeURIComponent(s): a character that is not "%" as it
\* is, %XX sequences as the UTF-8 character they spell (one above 0xFFFF
\* as its two surrogates); anything else throws
DecodeStep(s, st) ==
    LET i == st.i
        acc == st.acc
        b == PercentByte(s, i)
        c1 == ContinuationByte(s, i + 3)
        c2 == ContinuationByte(s, i + 6)
        c3 == ContinuationByte(s, i + 9)
        two == (b - 192) * 64 + c1
        three == (b - 224) * 4096 + c1 * 64 + c2
        four == (b - 240) * 262144 + c1 * 4096 + c2 * 64 + c3
    IN IF s[i] # 37 THEN Scan(i + 1, Append(acc, s[i]))
       ELSE IF b < 0 THEN ScanThrown
       ELSE IF b < 128 THEN Scan(i + 3, Append(acc, b))
       ELSE IF b >= 194 /\ b <= 223
       THEN IF c1 < 0 THEN ScanThrown ELSE Scan(i + 6, Append(acc, two))
       ELSE IF b >= 224 /\ b <= 239
       THEN IF c1 < 0 \/ c2 < 0 THEN ScanThrown
            ELSE IF three < 2048 \/ (three >= 55296 /\ three <= 57343) THEN ScanThrown
            ELSE Scan(i + 9, Append(acc, three))
       ELSE IF b >= 240 /\ b <= 244
       THEN IF c1 < 0 \/ c2 < 0 \/ c3 < 0 THEN ScanThrown
            ELSE IF four < 65536 \/ four > 1114111 THEN ScanThrown
            ELSE Scan(i + 12, acc \o <<55296 + ((four - 65536) \div 1024),
                                        56320 + ((four - 65536) % 1024)>>)
       ELSE ScanThrown

\* up to fuel steps of the scan
RECURSIVE DecodeSome(_, _, _)
DecodeSome(s, st, fuel) ==
    IF fuel = 0 \/ ~st.ok \/ st.i > Len(s) THEN st
    ELSE DecodeSome(s, DecodeStep(s, st), fuel - 1)

\* the scan to its end, sixteen steps at a time
RECURSIVE DecodeAll(_, _)
DecodeAll(s, st) ==
    IF ~st.ok \/ st.i > Len(s) THEN st
    ELSE DecodeAll(s, DecodeSome(s, st, 16))

decodeURIComponent(s) ==
    LET st == DecodeAll(s, Scan(1, <<>>))
    IN IF st.ok THEN Value(st.acc) ELSE Thrown

\* the outcome of reading a value that ends before position next
Read(v, n) == [ok |-> TRUE, val |-> v, next |-> n]
Unreadable == [ok |-> FALSE, val |-> <<>>, next |-> 0]

\* the four hexadecimal digits at positions i..i+3 as a number, or -1
FourHex(t, i) ==
    IF i + 3 <= Len(t) /\ \A k \in i .. i + 3 : HexValue(t[k]) >= 0
    THEN 4096 * HexValue(t[i]) + 256 * HexValue(t[i + 1])
             + 16 * HexValue(t[i + 2]) + HexValue(t[i + 3])
    ELSE 0 - 1

\* the character an escape letter stands for, or -1
EscapeOf(c) ==
    CASE c = 34 -> 34 [] c = 92 -> 92 [] c = 47 -> 47 [] c = 98 -> 8
      [] c = 102 -> 12 [] c = 110 -> 10 [] c = 114 -> 13 [] c = 116 -> 9
      [] OTHER -> 0 - 1

\* a JSON string whose opening quote is just before position i
RECURSIVE ReadString(_, _, _)
ReadString(t, i, acc) ==
    IF i > Len(t) \/ t[i] < 32 THEN Unreadable
    ELSE IF t[i] = 34 THEN Read(acc, i + 1)
    ELSE IF t[i] # 92 THEN ReadString(t, i + 1, Append(acc, t[i]))
    ELSE IF i + 1 > Len(t) THEN Unreadable
    ELSE IF t[i + 1] = 117
    THEN IF FourHex(t, i + 2) < 0 THEN Unreadable
         ELSE ReadString(t, i + 6, Append(acc, FourHex(t, i + 2)))
    ELSE IF EscapeOf(t[i + 1]) < 0 THEN Unreadable
    ELSE ReadString(t, i + 2, Append(acc, EscapeOf(t[i + 1])))

\* the strings of a JSON array after its "[" (first: no string read yet)
RECURSIVE ReadArray(_, _, _, _)
ReadArray(t, i, acc, first) ==
    IF i > Len(t) THEN Unreadable
    ELSE IF t[i] = 93 /\ (first \/ acc # <<>>) THEN Read(acc, i + 1)
    ELSE LET at == IF first THEN i ELSE i + 1
         IN IF ~first /\ t[i] # 44 THEN Unreadable
            ELSE IF at > Len(t) \/ t[at] # 34 THEN Unreadable
            ELSE LET s == ReadString(t, at + 1, <<>>)
                 IN IF ~s.ok THEN Unreadable
                    ELSE ReadArray(t, s.next, Append(acc, s.val), FALSE)

\* t continues with the characters of word at position i
HasAt(t, i, word) ==
    i + Len(word) - 1 <= Len(t) /\ \A k \in 1 .. Len(word) : t[i + k - 1] = word[k]

\* JSON.parse(text) for the texts JSON.stringify produces from { p, r }:
\* {"p":[strings],"r":[strings]}; any other text counts as a SyntaxError
JSONParse(t) ==
    IF ~HasAt(t, 1, <<123, 34, 112, 34, 58, 91>>) THEN Thrown
    ELSE LET p == ReadArray(t, 7, <<>>, TRUE)
         IN IF ~p.ok \/ ~HasAt(t, p.next, <<44, 34, 114, 34, 58, 91>>) THEN Thrown
            ELSE LET r == ReadArray(t, p.next + 6, <<>>, TRUE)
                 IN IF ~r.ok \/ r.next # Len(t) \/ t[r.next] # 125 THEN Thrown
                    ELSE Value([p |-> p.val, r |-> r.val])

\* return { participants: decoded.p, results: decoded.r }
ParsedData(decoded) == [participants |-> decoded.p, results |-> decoded.r]

\* parseShareableURL(urlString): every throw is caught and gives Null
parseShareableURL(urlString) ==
    LET encoded == SearchParamsGet(URLQuery(urlString.text), <<100, 97, 116, 97>>)
    IN IF encoded = Null \/ encoded = Text(<<>>) THEN Null
       ELSE LET bytes == atob(encoded.text)
            IN IF ~bytes.ok THEN Null
               ELSE LET json == decodeURIComponent(bytes.val)
                    IN IF ~json.ok THEN Null
                       ELSE LET decoded == JSONParse(json.val)
                            IN IF ~decoded.ok THEN Null
                               ELSE ParsedData(decoded.val)

\* ------------------------------------------- main.js: localStorage and CSV
\* items.join('\n') as a textarea value: no item gives the empty string,
\* whose only line is empty
JoinLines(items) == IF items = <<>> THEN <<<<>>>> ELSE items

\* text.replace(/,/g, '\n').split('\n'): the pieces of every line between
\* its commas
RECURSIVE CsvPieces(_, _)
CsvPieces(text, k) ==
    IF k > Len(text) THEN <<>>
    ELSE SplitOn(text[k], ",") \o CsvPieces(text, k + 1)

\* parseCsvContent(text)
parseCsvContent(text) ==
    LET pieces == CsvPieces(text, 1)
    IN SelectSeq([k \in 1 .. Len(pieces) |-> Trim(pieces[k])],
                 LAMBDA item : Len(item) > 0)

\* faulty variant: the try/catch is missing, so a throw leaves the handler
saveToStorageUncaught(available, participantsText, resultsText, savedParticipants, savedResults) ==
    IF available
    THEN [threw |-> FALSE, participants |-> Text(participantsText),
          results |-> Text(resultsText)]
    ELSE [threw |-> TRUE, participants |-> savedParticipants, results |-> savedResults]

\* saveToStorage(): the two items afterwards (Null, or the text saved), and
\* whether an exception leaves the function; setItem throws when storage is not available and
\* the catch swallows it
saveToStorage(available, participantsText, resultsText, savedParticipants, savedResults) ==
    IF available
    THEN [threw |-> FALSE, participants |-> Text(participantsText),
          results |-> Text(resultsText)]
    ELSE [threw |-> FALSE, participants |-> savedParticipants, results |-> savedResults]

\* if (savedParticipants): the item exists and is not the empty string
Truthy(saved) == saved # Null /\ saved # Text(<<<<>>>>)

\* loadFromStorage(): the two textarea values afterwards; getItem throws when
\* storage is not available, before any textarea is written
loadFromStorage(available, savedParticipants, savedResults, participantsText, resultsText) ==
    IF ~available
    THEN [participants |-> participantsText, results |-> resultsText]
    ELSE [participants |-> IF Truthy(savedParticipants) THEN savedParticipants.text
                           ELSE participantsText,
          results |-> IF Truthy(savedResults) THEN savedResults.text
                      ELSE resultsText]

\* =====================================================================
\* State
\* =====================================================================
VARIABLES
    \* generate(participants, results): its position and its locals
    pc, participants, results, numColumns, baseRows, horizontalLines,
    actualMapping, targetMapping, adjustments, finalLines, numRows,
    filledLines, ladder,
    \* generateRandomMapping(n) step by step: n, the loop index i, the array,
    \* the values of j drawn so far, the returned mapping
    shPc, shN, shI, shuffled, shChoices, shMapping,
    \* calculateAdjustmentTranspositions on given permutations
    adjPc, adjN, adjActual, adjTarget, adjTranspositions,
    \* addAdjustmentLines step by step: its arguments, the loop state, the
    \* index of the next transposition, the returned object
    plPc, plLines, plTranspositions, plStartRow, plNumColumns, plState, plK, plOut,
    \* fillWithDecorativePairs on a given rung list
    fillPc, fillLines, fillNumRows, fillNumColumns, fillOut,
    \* main.js: the two textarea values, state.ladderData, state.highlightIndex,
    \* the hidden flags of the two sections and of the error message, the
    \* error message text, and whether the handler that ran last called
    \* Ladder.generate
    participantsValue, resultsValue, ladderData, highlightIndex,
    inputSectionHidden, resultSectionHidden, errorMessageHidden,
    errorMessageText, generateCalled,
    \* validateInputs on given lists, as handleStart calls it: the two lists,
    \* the value returned, and whether handleStart goes on to Ladder.generate
    valPc, valParticipants, valResults, valError, valProceeds,
    \* share.js: a ladder, window.location's origin and pathname, the value
    \* generateShareableURL returned for them and the value
    \* parseShareableURL returned for that URL
    sharePc, shareLadder, shareLocation, shareUrl, shareParsed,
    \* calculateAdjustmentTranspositions statement by statement: n, targetPerm,
    \* working, the loop variables pos and currentPos, transpositions
    bubPc, bubN, bubTargetPerm, bubWorking, bubPos, bubCurrentPos, bubTranspositions,
    \* main.js and the browser: whether localStorage can be used, the two
    \* items saveToStorage writes, and the FileReader reads that
    \* handleCsvImport started and that have not finished
    storageAvailable, storedParticipants, storedResults, pendingReads,
    \* calculateMapping on a given rung list: its arguments and the mapping
    \* it returns
    trPc, trNumColumns, trNumRows, trLines, trMapping

genVars == <<pc, participants, results, numColumns, baseRows, horizontalLines,
             actualMapping, targetMapping, adjustments, finalLines, numRows,
             filledLines, ladder>>

shVars == <<shPc, shN, shI, shuffled, shChoices, shMapping>>
adjVars == <<adjPc, adjN, adjActual, adjTarget, adjTranspositions>>
plVars == <<plPc, plLines, plTranspositions, plStartRow, plNumColumns, plState, plK, plOut>>
fillVars == <<fillPc, fillLines, fillNumRows, fillNumColumns, fillOut>>

appVars == <<participantsValue, resultsValue, ladderData, highlightIndex,
             inputSectionHidden, resultSectionHidden, errorMessageHidden,
             errorMessageText, generateCalled>>

valVars == <<valPc, valParticipants, valResults, valError, valProceeds>>

shareVars == <<sharePc, shareLadder, shareLocation, shareUrl, shareParsed>>

bubVars == <<bubPc, bubN, bubTargetPerm, bubWorking, bubPos, bubCurrentPos,
             bubTranspositions>>

storeVars == <<storageAvailable, storedParticipants, storedResults, pendingReads>>

traceVars == <<trPc, trNumColumns, trNumRows, trLines, trMapping>>

vars == <<genVars, shVars, adjVars, plVars, fillVars, appVars, valVars, shareVars, bubVars, storeVars, traceVars>>

ParticipantNames == <<"A", "B", "C", "D", "E">>
ResultNames == <<"X", "Y", "Z", "V", "W">>

\* =====================================================================
\* generate(participants, results), one action per numbered step
\* =====================================================================
GenIdle ==
    /\ pc = "idle" /\ participants = Unset /\ results = Unset
    /\ numColumns = 0 /\ baseRows = 0 /\ horizontalLines = Unset
    /\ actualMapping = Unset /\ targetMapping = Unset /\ adjustments = Unset
    /\ finalLines = Unset /\ numRows = 0 /\ filledLines = Unset /\ ladder = Null

ShIdle ==
    /\ shPc = "idle" /\ shN = 0 /\ shI = 0 /\ shuffled = Unset
    /\ shChoices = Unset /\ shMapping = Unset

AdjIdle ==
    /\ adjPc = "idle" /\ adjN = 0 /\ adjActual = Unset /\ adjTarget = Unset
    /\ adjTranspositions = Unset

PlIdle ==
    /\ plPc = "idle" /\ plLines = Unset /\ plTranspositions = Unset
    /\ plStartRow = 0 /\ plNumColumns = 0 /\ plState = Unset /\ plK = 0
    /\ plOut = Unset

FillIdle ==
    /\ fillPc = "idle" /\ fillLines = Unset /\ fillNumRows = 0
    /\ fillNumColumns = 0 /\ fillOut = Unset

AppIdle ==
    /\ participantsValue = Unset /\ resultsValue = Unset /\ ladderData = Null
    /\ highlightIndex = 0 - 1 /\ inputSectionHidden = FALSE
    /\ resultSectionHidden = TRUE /\ errorMessageHidden = TRUE
    /\ errorMessageText = Null /\ generateCalled = FALSE

ValIdle ==
    /\ valPc = "idle" /\ valParticipants = Unset /\ valResults = Unset
    /\ valError = Null /\ valProceeds = FALSE

ShareIdle ==
    /\ sharePc = "idle" /\ shareLadder = Null /\ shareLocation = Unset
    /\ shareUrl = Null /\ shareParsed = Null

BubIdle ==
    /\ bubPc = "idle" /\ bubN = 0 /\ bubTargetPerm = Unset /\ bubWorking = Unset
    /\ bubPos = 0 /\ bubCurrentPos = 0 /\ bubTranspositions = Unset

StoreIdle ==
    /\ storageAvailable = FALSE /\ storedParticipants = Null
    /\ storedResults = Null /\ pendingReads = {}

TraceIdle ==
    /\ trPc = "idle" /\ trNumColumns = 0 /\ trNumRows = 0 /\ trLines = Unset
    /\ trMapping = Unset

GenStart ==
    \E n \in 2 .. MaxN :
        /\ pc = "rows"
        /\ participants = SubSeq(ParticipantNames, 1, n)
        /\ results = SubSeq(ResultNames, 1, n)
        /\ numColumns = 0 /\ baseRows = 0 /\ horizontalLines = Unset
        /\ actualMapping = Unset /\ targetMapping = Unset /\ adjustments = Unset
        /\ finalLines = Unset /\ numRows = 0 /\ filledLines = Unset /\ ladder = Null

\* 1. numColumns and baseRows
DetermineBaseRows ==
    /\ pc = "rows"
    /\ numColumns' = Len(participants)
    /\ baseRows' = BaseRows(Len(participants))
    /\ pc' = "natural"
    /\ UNCHANGED <<participants, results, horizontalLines, actualMapping,
                   targetMapping, adjustments, finalLines, numRows, filledLines, ladder>>
    /\ UNCHANGED <<shVars, adjVars, plVars, fillVars, appVars, valVars, shareVars, bubVars, storeVars, traceVars>>

\* 2. horizontalLines = generateRandomLines(numColumns, baseRows)
GenerateNatural ==
    /\ pc = "natural"
    /\ \E lines \in generateRandomLines(numColumns, baseRows) :
           horizontalLines' = lines
    /\ pc' = "trace"
    /\ UNCHANGED <<participants, results, numColumns, baseRows, actualMapping,
                   targetMapping, adjustments, finalLines, numRows, filledLines, ladder>>
    /\ UNCHANGED <<shVars, adjVars, plVars, fillVars, appVars, valVars, shareVars, bubVars, storeVars, traceVars>>

\* faulty variant: a ladder that permutes nothing is thrown away and the
\* natural rungs are generated again
TraceActualRetry ==
    /\ pc = "trace"
    /\ actualMapping' = calculateMapping(numColumns, baseRows, horizontalLines)
    /\ pc' = IF \A p \in 0 .. numColumns - 1 :
                   calculateMapping(numColumns, baseRows, horizontalLines)[p] = p
             THEN "natural" ELSE "sample"
    /\ UNCHANGED <<participants, results, numColumns, baseRows, horizontalLines,
                   targetMapping, adjustments, finalLines, numRows, filledLines, ladder>>
    /\ UNCHANGED <<shVars, adjVars, plVars, fillVars, appVars, valVars, shareVars, bubVars, storeVars, traceVars>>

\* 3. actualMapping = calculateMapping(numColumns, baseRows, horizontalLines)
TraceActual ==
    /\ pc = "trace"
    /\ actualMapping' = calculateMapping(numColumns, baseRows, horizontalLines)
    /\ pc' = "sample"
    /\ UNCHANGED <<participants, results, numColumns, baseRows, horizontalLines,
                   targetMapping, adjustments, finalLines, numRows, filledLines, ladder>>
    /\ UNCHANGED <<shVars, adjVars, plVars, fillVars, appVars, valVars, shareVars, bubVars, storeVars, traceVars>>

\* 4. targetMapping = generateRandomMapping(numColumns)
SampleTarget ==
    /\ pc = "sample"
    /\ \E m \in generateRandomMapping(numColumns) : targetMapping' = m
    /\ pc' = "adjust"
    /\ UNCHANGED <<participants, results, numColumns, baseRows, horizontalLines,
                   actualMapping, adjustments, finalLines, numRows, filledLines, ladder>>
    /\ UNCHANGED <<shVars, adjVars, plVars, fillVars, appVars, valVars, shareVars, bubVars, storeVars, traceVars>>

\* 5. adjustments = calculateAdjustmentTranspositions(actualMapping, targetMapping, numColumns)
ComputeAdjustments ==
    /\ pc = "adjust"
    /\ adjustments' = calculateAdjustmentTranspositions(actualMapping, targetMapping, numColumns)
    /\ pc' = "place"
    /\ UNCHANGED <<participants, results, numColumns, baseRows, horizontalLines,
                   actualMapping, targetMapping, finalLines, numRows, filledLines, ladder>>
    /\ UNCHANGED <<shVars, adjVars, plVars, fillVars, appVars, valVars, shareVars, bubVars, storeVars, traceVars>>

\* faulty variant: addAdjustmentLines pushes onto the array it was given
\* (result = lines in place of result = [...lines])
PlaceAdjustmentsAliasing ==
    /\ pc = "place"
    /\ LET r == addAdjustmentLines(horizontalLines, adjustments, baseRows, numColumns)
       IN /\ finalLines' = r.lines
          /\ horizontalLines' = r.lines
          /\ numRows' = r.numRows
    /\ pc' = "fill"
    /\ UNCHANGED <<participants, results, numColumns, baseRows,
                   actualMapping, targetMapping, adjustments, filledLines, ladder>>
    /\ UNCHANGED <<shVars, adjVars, plVars, fillVars, appVars, valVars, shareVars, bubVars, storeVars, traceVars>>

\* 6. { lines: finalLines, numRows } = addAdjustmentLines(horizontalLines, adjustments, baseRows, numColumns)
PlaceAdjustments ==
    /\ pc = "place"
    /\ LET r == addAdjustmentLines(horizontalLines, adjustments, baseRows, numColumns)
       IN /\ finalLines' = r.lines
          /\ numRows' = r.numRows
    /\ pc' = "fill"
    /\ UNCHANGED <<participants, results, numColumns, baseRows, horizontalLines,
                   actualMapping, targetMapping, adjustments, filledLines, ladder>>
    /\ UNCHANGED <<shVars, adjVars, plVars, fillVars, appVars, valVars, shareVars, bubVars, storeVars, traceVars>>

\* 7. filledLines = fillWithDecorativePairs(finalLines, numRows + 1, numColumns)
FillDecorative ==
    /\ pc = "fill"
    /\ \E f \in fillWithDecorativePairs(finalLines, TotalRows(numRows), numColumns) :
           filledLines' = f
    /\ pc' = "sort"
    /\ UNCHANGED <<participants, results, numColumns, baseRows, horizontalLines,
                   actualMapping, targetMapping, adjustments, finalLines, numRows, ladder>>
    /\ UNCHANGED <<shVars, adjVars, plVars, fillVars, appVars, valVars, shareVars, bubVars, storeVars, traceVars>>

\* filledLines.sort(...) in place, and the return
SortAndFinalize ==
    /\ pc = "sort"
    /\ filledLines' = SortLines(filledLines)
    /\ ladder' = LadderData(participants, results, numColumns, numRows,
                            SortLines(filledLines), targetMapping)
    /\ pc' = "done"
    /\ UNCHANGED <<participants, results, numColumns, baseRows, horizontalLines,
                   actualMapping, targetMapping, adjustments, finalLines, numRows>>
    /\ UNCHANGED <<shVars, adjVars, plVars, fillVars, appVars, valVars, shareVars, bubVars, storeVars, traceVars>>

GenInit == GenStart /\ ShIdle /\ AdjIdle /\ PlIdle /\ FillIdle /\ AppIdle /\ ValIdle /\ ShareIdle /\ BubIdle /\ StoreIdle /\ TraceIdle

GenNext ==
    \/ DetermineBaseRows
    \/ GenerateNatural
    \/ TraceActual
    \/ SampleTarget
    \/ ComputeAdjustments
    \/ PlaceAdjustments
    \/ FillDecorative
    \/ SortAndFinalize

SpecGen == GenInit /\ [][GenNext]_vars

\* =====================================================================
\* generateRandomMapping(n), one action per loop iteration
\* =====================================================================
ShStart ==
    \E n \in 2 .. MaxShuffleN :
        /\ shPc = "loop" /\ shN = n /\ shI = n - 1 /\ shuffled = Keys(n)
        /\ shChoices = <<>> /\ shMapping = Unset

\* one iteration of `for (let i = n - 1; i > 0; i--)`
ShuffleStep ==
    /\ shPc = "loop" /\ shI > 0
    /\ \E j \in JRange(shI, shN) :
           /\ shuffled' = ShuffleSwap(shuffled, shI, j)
           /\ shChoices' = Append(shChoices, j)
    /\ shI' = shI - 1
    /\ UNCHANGED <<shPc, shN, shMapping>>
    /\ UNCHANGED <<genVars, adjVars, plVars, fillVars, appVars, valVars, shareVars, bubVars, storeVars, traceVars>>

\* the loop is over: build and return the mapping
ShuffleReturn ==
    /\ shPc = "loop" /\ ~(shI > 0)
    /\ shMapping' = MappingOf(shuffled, shN)
    /\ shPc' = "done"
    /\ UNCHANGED <<shN, shI, shuffled, shChoices>>
    /\ UNCHANGED <<genVars, adjVars, plVars, fillVars, appVars, valVars, shareVars, bubVars, storeVars, traceVars>>

ShInit == ShStart /\ GenIdle /\ AdjIdle /\ PlIdle /\ FillIdle /\ AppIdle /\ ValIdle /\ ShareIdle /\ BubIdle /\ StoreIdle /\ TraceIdle
ShNext == ShuffleStep \/ ShuffleReturn
SpecShuffle == ShInit /\ [][ShNext]_vars

\* =====================================================================
\* calculateAdjustmentTranspositions on every pair of permutations
\* =====================================================================
PermutationsOf(n) ==
    {f \in [0 .. n - 1 -> 0 .. n - 1] :
        \A a, b \in 0 .. n - 1 : f[a] = f[b] => a = b}

AdjStart ==
    \E n \in 2 .. MaxAdjN :
        /\ adjPc = "call" /\ adjN = n
        /\ adjActual \in PermutationsOf(n)
        /\ adjTarget \in PermutationsOf(n)
        /\ adjTranspositions = Unset

AdjCompute ==
    /\ adjPc = "call"
    /\ adjTranspositions' = calculateAdjustmentTranspositions(adjActual, adjTarget, adjN)
    /\ adjPc' = "done"
    /\ UNCHANGED <<adjN, adjActual, adjTarget>>
    /\ UNCHANGED <<genVars, shVars, plVars, fillVars, appVars, valVars, shareVars, bubVars, storeVars, traceVars>>

AdjInit == AdjStart /\ GenIdle /\ ShIdle /\ PlIdle /\ FillIdle /\ AppIdle /\ ValIdle /\ ShareIdle /\ BubIdle /\ StoreIdle /\ TraceIdle
AdjNext == AdjCompute
SpecAdj == AdjInit /\ [][AdjNext]_vars

\* =====================================================================
\* addAdjustmentLines on every transposition list, one action per
\* loop iteration
\* =====================================================================
SeqsUpTo(S, n) == UNION {[1 .. k -> S] : k \in 0 .. n}

PlStart ==
    \E nc \in 2 .. MaxPlaceCols :
        /\ plPc = "loop" /\ plNumColumns = nc
        /\ plLines \in {<<>>, <<Line(0, 0)>>}
        /\ plTranspositions \in SeqsUpTo(0 .. nc - 2, MaxTransLen)
        /\ plStartRow \in 0 .. MaxStartRow
        /\ plState = PlaceInit(plLines)
        /\ plK = 1
        /\ plOut = Unset

\* one iteration of `for (const col of transpositions)`
PlaceStep ==
    /\ plPc = "loop" /\ plK <= Len(plTranspositions)
    /\ plState' = PlaceOne(plState, plTranspositions[plK], plStartRow)
    /\ plK' = plK + 1
    /\ UNCHANGED <<plPc, plLines, plTranspositions, plStartRow, plNumColumns, plOut>>
    /\ UNCHANGED <<genVars, shVars, adjVars, fillVars, appVars, valVars, shareVars, bubVars, storeVars, traceVars>>

\* the loop is over: totalRows and the return
PlaceReturn ==
    /\ plPc = "loop" /\ plK > Len(plTranspositions)
    /\ plOut' = PlaceFinal(plState, plStartRow)
    /\ plPc' = "done"
    /\ UNCHANGED <<plLines, plTranspositions, plStartRow, plNumColumns, plState, plK>>
    /\ UNCHANGED <<genVars, shVars, adjVars, fillVars, appVars, valVars, shareVars, bubVars, storeVars, traceVars>>

PlInit == PlStart /\ GenIdle /\ ShIdle /\ AdjIdle /\ FillIdle /\ AppIdle /\ ValIdle /\ ShareIdle /\ BubIdle /\ StoreIdle /\ TraceIdle
PlNext == PlaceStep \/ PlaceReturn
SpecPlace == PlInit /\ [][PlNext]_vars

\* =====================================================================
\* fillWithDecorativePairs on every small rung list
\* =====================================================================
FillStart ==
    \E nc \in 2 .. MaxFillCols, nr \in 1 .. MaxFillRows :
        /\ fillPc = "call" /\ fillNumColumns = nc /\ fillNumRows = nr
        /\ fillLines \in SeqsUpTo({Line(c, r) : c \in 0 .. nc - 2, r \in 0 .. nr - 1},
                                  MaxFillLines)
        /\ fillOut = Unset

FillCall ==
    /\ fillPc = "call"
    /\ \E f \in fillWithDecorativePairs(fillLines, fillNumRows, fillNumColumns) :
           fillOut' = f
    /\ fillPc' = "done"
    /\ UNCHANGED <<fillLines, fillNumRows, fillNumColumns>>
    /\ UNCHANGED <<genVars, shVars, adjVars, plVars, appVars, valVars, shareVars, bubVars, storeVars, traceVars>>

FillInit == FillStart /\ GenIdle /\ ShIdle /\ AdjIdle /\ PlIdle /\ AppIdle /\ ValIdle /\ ShareIdle /\ BubIdle /\ StoreIdle /\ TraceIdle
FillNext == FillCall
SpecFill == FillInit /\ [][FillNext]_vars

\* =====================================================================
\* Steps 5 and 6 of generate loop by loop: the loops of
\* calculateAdjustmentTranspositions, then those of addAdjustmentLines on
\* the transpositions it returns
\* =====================================================================
BubStart ==
    \E n \in 2 .. MaxLoopN :
        \E actual \in PermutationsOf(n), target \in PermutationsOf(n) :
            /\ bubPc = "for" /\ bubN = n
            /\ bubWorking = PositionToParticipant(actual, n)
            /\ bubTargetPerm = PositionToParticipant(target, n)
            /\ bubPos = 0 /\ bubCurrentPos = 0
            /\ bubTranspositions = <<>>

\* pos < n: let currentPos = working.indexOf(targetPerm[pos])
BubFind ==
    /\ bubPc = "for" /\ bubPos < bubN
    /\ bubCurrentPos' = BubbleSource(bubWorking, bubN, bubTargetPerm[bubPos])
    /\ bubPc' = "while"
    /\ UNCHANGED <<bubN, bubTargetPerm, bubWorking, bubPos, bubTranspositions>>
    /\ UNCHANGED <<genVars, shVars, adjVars, plVars, fillVars, appVars, valVars, shareVars, storeVars, traceVars>>

\* currentPos > pos: swap, push, currentPos--
BubSwap ==
    /\ bubPc = "while" /\ bubCurrentPos > bubPos
    /\ bubWorking' = SwapAdjacent(bubWorking, bubCurrentPos)
    /\ bubTranspositions' = Append(bubTranspositions, SwapColumn(bubCurrentPos))
    /\ bubCurrentPos' = bubCurrentPos - 1
    /\ UNCHANGED <<bubPc, bubN, bubTargetPerm, bubPos>>
    /\ UNCHANGED <<genVars, shVars, adjVars, plVars, fillVars, appVars, valVars, shareVars, storeVars, traceVars>>

\* the while loop is over: pos++
BubNextPos ==
    /\ bubPc = "while" /\ ~(bubCurrentPos > bubPos)
    /\ bubPos' = bubPos + 1
    /\ bubPc' = "for"
    /\ UNCHANGED <<bubN, bubTargetPerm, bubWorking, bubCurrentPos, bubTranspositions>>
    /\ UNCHANGED <<genVars, shVars, adjVars, plVars, fillVars, appVars, valVars, shareVars, storeVars, traceVars>>

\* the for loop is over: return transpositions; generate hands them to
\* addAdjustmentLines(horizontalLines, adjustments, baseRows, numColumns),
\* here for a ladder without natural rungs
BubReturn ==
    /\ bubPc = "for" /\ ~(bubPos < bubN)
    /\ bubPc' = "done"
    /\ plPc' = "loop"
    /\ plLines' = <<>>
    /\ plTranspositions' = bubTranspositions
    /\ plStartRow' = BaseRows(bubN)
    /\ plNumColumns' = bubN
    /\ plState' = PlaceInit(<<>>)
    /\ plK' = 1
    /\ UNCHANGED plOut
    /\ UNCHANGED <<bubN, bubTargetPerm, bubWorking, bubPos, bubCurrentPos, bubTranspositions>>
    /\ UNCHANGED <<genVars, shVars, adjVars, fillVars, appVars, valVars, shareVars, storeVars, traceVars>>

LoopInit ==
    BubStart /\ GenIdle /\ ShIdle /\ AdjIdle /\ PlIdle /\ FillIdle /\ AppIdle /\ ValIdle
        /\ ShareIdle /\ StoreIdle /\ TraceIdle

LoopNext == BubFind \/ BubSwap \/ BubNextPos \/ BubReturn \/ PlaceStep \/ PlaceReturn

\* the calls are synchronous: a statement that can run does run
SpecLoops == LoopInit /\ [][LoopNext]_vars /\ WF_vars(LoopNext)

\* =====================================================================
\* calculateMapping on every short rung list, in every order, rows that
\* hold neighbouring rungs and a row below the ladder included
\* =====================================================================
TraceRungs(n, rows) == {Line(col, row) : col \in 0 .. n - 2, row \in 0 .. rows}

TraceStart ==
    /\ trPc = "call"
    /\ trNumColumns \in 2 .. MaxTraceCols
    /\ trNumRows \in 1 .. MaxTraceRows
    /\ trLines \in SeqsUpTo(TraceRungs(trNumColumns, trNumRows), MaxTraceLines)
    /\ trMapping = Unset

\* calculateMapping(numColumns, numRows, horizontalLines)
TraceCall ==
    /\ trPc = "call"
    /\ trMapping' = calculateMapping(trNumColumns, trNumRows, trLines)
    /\ trPc' = "done"
    /\ UNCHANGED <<trNumColumns, trNumRows, trLines>>
    /\ UNCHANGED <<genVars, shVars, adjVars, plVars, fillVars, appVars, valVars, shareVars, bubVars, storeVars>>

TraceInit ==
    TraceStart /\ GenIdle /\ ShIdle /\ AdjIdle /\ PlIdle /\ FillIdle /\ AppIdle /\ ValIdle
        /\ ShareIdle /\ BubIdle /\ StoreIdle
TraceNext == TraceCall
SpecTrace == TraceInit /\ [][TraceNext]_vars

\* =====================================================================
\* validateInputs on short lists and on lists around the upper limit
\* =====================================================================
\* a name of k characters; names of different lengths are different
UnaryName(k) == [i \in 1 .. k |-> "a"]

\* n names, pairwise distinct unless dup, and then the last repeats the first
LongList(n, dup) == [k \in 1 .. n |-> IF dup /\ k = n THEN UnaryName(1) ELSE UnaryName(k)]

ValNames == {<<"a">>, <<"b">>, <<"c">>}
ValResultNames == {<<"x">>, <<"y">>}
ValLongLens == {MaxParticipants - 1, MaxParticipants, MaxParticipants + 1}

ValStart ==
    /\ valPc = "call"
    /\ valParticipants \in SeqsUpTo(ValNames, MaxValLen)
                            \cup {LongList(n, dup) : n \in ValLongLens, dup \in BOOLEAN}
    /\ valResults \in SeqsUpTo(ValResultNames, MaxValLen)
                       \cup {[k \in 1 .. n |-> <<"x">>] : n \in ValLongLens}
    /\ valError = Null /\ valProceeds = FALSE

\* const validationError = validateInputs(participants, results);
\* if (validationError) { showError(validationError); return; }
ValidateCall ==
    /\ valPc = "call"
    /\ valError' = validateInputs(valParticipants, valResults)
    /\ valProceeds' = ~StartRejects(validateInputs(valParticipants, valResults))
    /\ valPc' = "done"
    /\ UNCHANGED <<valParticipants, valResults>>
    /\ UNCHANGED <<genVars, shVars, adjVars, plVars, fillVars, appVars, shareVars, bubVars, storeVars, traceVars>>

ValInit == ValStart /\ GenIdle /\ ShIdle /\ AdjIdle /\ PlIdle /\ FillIdle /\ AppIdle /\ ShareIdle /\ BubIdle /\ StoreIdle /\ TraceIdle
ValNext == ValidateCall
SpecValidate == ValInit /\ [][ValNext]_vars

\* init() on the page as delivered (empty textareas, the input section
\* shown, no ladder): bindEvents(); loadFromStorage(); updateCounts().
\* Nothing in it reads window.location.
RunInit(available, savedParticipants, savedResults) ==
    LET loaded == loadFromStorage(available, savedParticipants, savedResults,
                                  <<<<>>>>, <<<<>>>>)
    IN /\ participantsValue' = loaded.participants
       /\ resultsValue' = loaded.results
       /\ ladderData' = Null /\ highlightIndex' = 0 - 1
       /\ inputSectionHidden' = FALSE /\ resultSectionHidden' = TRUE
       /\ errorMessageHidden' = TRUE /\ errorMessageText' = Null
       /\ generateCalled' = FALSE

\* =====================================================================
\* generateShareableURL and parseShareableURL on two-column ladders
\* =====================================================================
\* names of "a", "~" and a Hangul syllable; results with a quote and a
\* backslash
ShareNameChars == {97, 126, 44032}
ShareNames == UNION {[1 .. k -> ShareNameChars] : k \in 1 .. MaxShareNameLen}
ShareResultLists == {<<<<120>>, <<121>>>>, <<<<34, 120>>, <<92>>>>}

\* three ladders generate returns for two columns: no rung; one natural
\* rung and the swap as target; one adjustment rung for the swap
ShareLayouts ==
    {[lines |-> <<>>, mapping |-> [p \in 0 .. 1 |-> p]],
     [lines |-> <<Line(0, FirstNaturalRow)>>, mapping |-> [p \in 0 .. 1 |-> 1 - p]],
     [lines |-> <<Line(0, BaseRows(2))>>, mapping |-> [p \in 0 .. 1 |-> 1 - p]]}

\* "https://h/" followed by n times "a"
LocationOf(n) == <<104, 116, 116, 112, 115, 58, 47, 47, 104, 47>> \o [k \in 1 .. n |-> 97]

\* a short location, and one that leaves room for the shorter links only
ShareLocations == {LocationOf(0), LocationOf(MaxUrlLength - 150)}

ShareStart ==
    /\ sharePc = "call"
    /\ \E p \in [1 .. 2 -> ShareNames], r \in ShareResultLists, layout \in ShareLayouts :
           shareLadder = LadderData(p, r, 2, BaseRows(2) + 1, layout.lines, layout.mapping)
    /\ shareLocation \in ShareLocations
    /\ shareUrl = Null /\ shareParsed = Null

\* generateShareableURL(ladderData)
ShareGenerate ==
    /\ sharePc = "call"
    /\ shareUrl' = generateShareableURL(shareLadder, shareLocation)
    /\ sharePc' = "url"
    /\ UNCHANGED <<shareLadder, shareLocation, shareParsed>>
    /\ UNCHANGED <<genVars, shVars, adjVars, plVars, fillVars, appVars, valVars, bubVars, storeVars, traceVars>>

\* parseShareableURL(urlString) on the URL just generated
ShareParse ==
    /\ sharePc = "url" /\ shareUrl # Null
    /\ shareParsed' = parseShareableURL(shareUrl)
    /\ sharePc' = "parsed"
    /\ UNCHANGED <<shareLadder, shareLocation, shareUrl>>
    /\ UNCHANGED <<genVars, shVars, adjVars, plVars, fillVars, appVars, valVars, bubVars, storeVars, traceVars>>

ShareInit == ShareStart /\ GenIdle /\ ShIdle /\ AdjIdle /\ PlIdle /\ FillIdle /\ AppIdle /\ ValIdle /\ BubIdle /\ StoreIdle /\ TraceIdle
\* what the browser that opens the link holds in localStorage: nothing, or
\* the text "a" saved on an earlier visit
SavedBefore == {Null, Text(<<<<97>>>>)}

\* the page is opened at the URL just generated: init() runs with
\* window.location set to it
ShareOpen ==
    /\ sharePc = "parsed"
    /\ \E available \in BOOLEAN, savedParticipants \in SavedBefore, savedResults \in SavedBefore :
           /\ storageAvailable' = available
           /\ storedParticipants' = savedParticipants
           /\ storedResults' = savedResults
           /\ RunInit(available, savedParticipants, savedResults)
    /\ sharePc' = "opened"
    /\ UNCHANGED <<shareLadder, shareLocation, shareUrl, shareParsed, pendingReads>>
    /\ UNCHANGED <<genVars, shVars, adjVars, plVars, fillVars, valVars, bubVars, traceVars>>

ShareNext == ShareGenerate \/ ShareParse \/ ShareOpen
SpecShare == ShareInit /\ [][ShareNext]_vars

\* =====================================================================
\* The application (main.js): one action per event handler
\* =====================================================================
\* the lines a user types, and the textarea values built from them
ParticipantLines == {<<>>, <<"a">>, <<" ", "a">>, <<"b">>}
ResultLines == {<<"x">>, <<"y">>}
TextsOf(lineSet, maxLines) == UNION {[1 .. k -> lineSet] : k \in 1 .. maxLines}

\* the state after the script has run and init() has returned, with nothing
\* saved in localStorage: empty textareas, the input section shown
AppStart ==
    /\ participantsValue = <<<<>>>> /\ resultsValue = <<<<>>>>
    /\ ladderData = Null /\ highlightIndex = 0 - 1
    /\ inputSectionHidden = FALSE /\ resultSectionHidden = TRUE
    /\ errorMessageHidden = TRUE /\ errorMessageText = Null
    /\ generateCalled = FALSE

\* localStorage as the page finds it at first: usable or not (it stays so),
\* nothing saved, no file being read
StoreStart ==
    /\ storageAvailable \in BOOLEAN
    /\ storedParticipants = Null /\ storedResults = Null
    /\ pendingReads = {}

\* saveToStorage(); hideError(): the tail of the input handlers and of
\* reader.onload, for the textarea values the handler leaves
SaveAndHideError(participantsText, resultsText) ==
    LET saved == saveToStorage(storageAvailable, participantsText, resultsText,
                               storedParticipants, storedResults)
    IN /\ storedParticipants' = saved.participants
       /\ storedResults' = saved.results
       /\ errorMessageHidden' = IF saved.threw THEN errorMessageHidden ELSE TRUE

\* init() on a page load (the first one is AppStart; this is a reload or a
\* later visit): the page as delivered, then loadFromStorage(); reads in
\* flight end with the page that started them
PageLoad ==
    /\ RunInit(storageAvailable, storedParticipants, storedResults)
    /\ pendingReads' = {}
    /\ UNCHANGED <<storageAvailable, storedParticipants, storedResults>>
    /\ UNCHANGED <<genVars, shVars, adjVars, plVars, fillVars, valVars, shareVars, bubVars, traceVars>>

\* the file a user picks: "a, b," on one line
CsvFiles == {<<<<"a", ",", " ", "b", ",">>>>}

\* handleCsvImport(event, targetTextarea) up to reader.readAsText(file): a
\* 'change' without a file returns at once; the CSV buttons are in the input
\* section
HandleCsvImport ==
    /\ ~inputSectionHidden
    /\ \/ UNCHANGED pendingReads
       \/ /\ Cardinality(pendingReads) < MaxPendingReads
          /\ \E target \in {"participants", "results"}, file \in CsvFiles :
                 pendingReads' = pendingReads \cup {[target |-> target, content |-> file]}
    /\ generateCalled' = FALSE
    /\ UNCHANGED <<participantsValue, resultsValue, ladderData, highlightIndex,
                   inputSectionHidden, resultSectionHidden, errorMessageHidden,
                   errorMessageText>>
    /\ UNCHANGED <<storageAvailable, storedParticipants, storedResults>>
    /\ UNCHANGED <<genVars, shVars, adjVars, plVars, fillVars, valVars, shareVars, bubVars, traceVars>>

\* reader.onload for a read that has finished, whatever the page shows by
\* then: targetTextarea.value = items.join('\n'); updateCounts();
\* saveToStorage(); hideError()
ReaderOnload ==
    /\ \E read \in pendingReads :
           LET value == JoinLines(parseCsvContent(read.content))
               participantsText == IF read.target = "participants" THEN value
                                   ELSE participantsValue
               resultsText == IF read.target = "results" THEN value ELSE resultsValue
           IN /\ participantsValue' = participantsText
              /\ resultsValue' = resultsText
              /\ SaveAndHideError(participantsText, resultsText)
              /\ pendingReads' = pendingReads \ {read}
    /\ generateCalled' = FALSE
    /\ UNCHANGED <<ladderData, highlightIndex, inputSectionHidden, resultSectionHidden,
                   errorMessageText>>
    /\ UNCHANGED storageAvailable
    /\ UNCHANGED <<genVars, shVars, adjVars, plVars, fillVars, valVars, shareVars, bubVars, traceVars>>

\* 'input' on the participants textarea (the user edits it, so it is shown):
\* updateCounts(); saveToStorage(); hideError()
HandleParticipantsInput ==
    /\ ~inputSectionHidden
    /\ \E text \in TextsOf(ParticipantLines, MaxParticipantLines) :
           /\ participantsValue' = text
           /\ SaveAndHideError(text, resultsValue)
    /\ generateCalled' = FALSE
    /\ UNCHANGED <<resultsValue, ladderData, highlightIndex, inputSectionHidden,
                   resultSectionHidden, errorMessageText>>
    /\ UNCHANGED <<storageAvailable, pendingReads>>
    /\ UNCHANGED <<genVars, shVars, adjVars, plVars, fillVars, valVars, shareVars, bubVars, traceVars>>

\* 'input' on the results textarea
HandleResultsInput ==
    /\ ~inputSectionHidden
    /\ \E text \in TextsOf(ResultLines, MaxResultLines) :
           /\ resultsValue' = text
           /\ SaveAndHideError(participantsValue, text)
    /\ generateCalled' = FALSE
    /\ UNCHANGED <<participantsValue, ladderData, highlightIndex, inputSectionHidden,
                   resultSectionHidden, errorMessageText>>
    /\ UNCHANGED <<storageAvailable, pendingReads>>
    /\ UNCHANGED <<genVars, shVars, adjVars, plVars, fillVars, valVars, shareVars, bubVars, traceVars>>

\* handleStart()
HandleStart ==
    LET participantList == parseTextareaLines(participantsValue)
        resultList == parseTextareaLines(resultsValue)
        validationError == validateInputs(participantList, resultList)
    IN IF StartRejects(validationError)
       THEN \* showError(validationError); return
            /\ errorMessageText' = validationError
            /\ errorMessageHidden' = FALSE
            /\ generateCalled' = FALSE
            /\ UNCHANGED <<participantsValue, resultsValue, ladderData, highlightIndex,
                           inputSectionHidden, resultSectionHidden>>
       ELSE \* state.ladderData = Ladder.generate(...); render; summary;
            \* showResultSection()
            /\ \E l \in generate(participantList, resultList) : ladderData' = l
            /\ generateCalled' = TRUE
            /\ inputSectionHidden' = TRUE
            /\ resultSectionHidden' = FALSE
            /\ UNCHANGED <<participantsValue, resultsValue, highlightIndex,
                           errorMessageHidden, errorMessageText>>

\* faulty variant: the highlight is not cleared
HandleResetKeepingHighlight ==
    /\ ladderData' = Null
    /\ resultSectionHidden' = TRUE
    /\ inputSectionHidden' = FALSE
    /\ errorMessageHidden' = TRUE
    /\ generateCalled' = FALSE
    /\ UNCHANGED <<participantsValue, resultsValue, errorMessageText, highlightIndex>>

\* handleReset(): state reset, showInputSection() with hideError()
HandleReset ==
    /\ ladderData' = Null
    /\ highlightIndex' = 0 - 1
    /\ resultSectionHidden' = TRUE
    /\ inputSectionHidden' = FALSE
    /\ errorMessageHidden' = TRUE
    /\ generateCalled' = FALSE
    /\ UNCHANGED <<participantsValue, resultsValue, errorMessageText>>

\* 'click' on the start button, which is inside the input section
StartButtonClick ==
    /\ ~inputSectionHidden
    /\ HandleStart
    /\ UNCHANGED <<genVars, shVars, adjVars, plVars, fillVars, valVars, shareVars, bubVars, storeVars, traceVars>>

\* 'click' on the reset button, which is inside the result section
ResetButtonClick ==
    /\ ~resultSectionHidden
    /\ HandleReset
    /\ UNCHANGED <<genVars, shVars, adjVars, plVars, fillVars, valVars, shareVars, bubVars, storeVars, traceVars>>

\* handleKeyDown(event) for Ctrl/Cmd+Enter
KeyDownCtrlEnter ==
    /\ IF ~inputSectionHidden
       THEN HandleStart
       ELSE generateCalled' = FALSE
            /\ UNCHANGED <<participantsValue, resultsValue, ladderData, highlightIndex,
                           inputSectionHidden, resultSectionHidden, errorMessageHidden,
                           errorMessageText>>
    /\ UNCHANGED <<genVars, shVars, adjVars, plVars, fillVars, valVars, shareVars, bubVars, storeVars, traceVars>>

\* faulty variant: Escape resets whatever section is shown
KeyDownEscapeAlways ==
    /\ HandleReset
    /\ UNCHANGED storeVars
    /\ UNCHANGED <<genVars, shVars, adjVars, plVars, fillVars, valVars, shareVars, bubVars, traceVars>>

\* handleKeyDown(event) for Escape
KeyDownEscape ==
    /\ IF ~resultSectionHidden
       THEN HandleReset
       ELSE generateCalled' = FALSE
            /\ UNCHANGED <<participantsValue, resultsValue, ladderData, highlightIndex,
                           inputSectionHidden, resultSectionHidden, errorMessageHidden,
                           errorMessageText>>
    /\ UNCHANGED <<genVars, shVars, adjVars, plVars, fillVars, valVars, shareVars, bubVars, storeVars, traceVars>>

\* faulty variant: the index is taken as one-based
ToggleHighlightOneBased(current, index) == IF current = index THEN 0 - 1 ELSE index + 1

\* if (state.highlightIndex === index) -1 else index
ToggleHighlight(current, index) == IF current = index THEN 0 - 1 ELSE index

\* handleResultItemClick(index, event) on an item that displayResultSummary
\* built for the current ladder; the items are inside the result section
HandleResultItemClick ==
    /\ ~resultSectionHidden
    /\ ladderData # Null
    /\ \E index \in 0 .. Len(ladderData.participants) - 1 :
           highlightIndex' = ToggleHighlight(highlightIndex, index)
    /\ generateCalled' = FALSE
    /\ UNCHANGED <<participantsValue, resultsValue, ladderData, inputSectionHidden,
                   resultSectionHidden, errorMessageHidden, errorMessageText>>
    /\ UNCHANGED <<genVars, shVars, adjVars, plVars, fillVars, valVars, shareVars, bubVars, storeVars, traceVars>>

\* handleCanvasClick(event); index is what getParticipantIndexFromClick
\* returns: a column, or -1. The canvas is inside the result section.
HandleCanvasClick ==
    /\ ~resultSectionHidden
    /\ IF ladderData = Null
       THEN UNCHANGED highlightIndex
       ELSE \E index \in (0 - 1) .. ladderData.verticalLines - 1 :
              IF index >= 0
              THEN highlightIndex' = ToggleHighlight(highlightIndex, index)
              ELSE IF highlightIndex >= 0
              THEN highlightIndex' = 0 - 1
              ELSE UNCHANGED highlightIndex
    /\ generateCalled' = FALSE
    /\ UNCHANGED <<participantsValue, resultsValue, ladderData, inputSectionHidden,
                   resultSectionHidden, errorMessageHidden, errorMessageText>>
    /\ UNCHANGED <<genVars, shVars, adjVars, plVars, fillVars, valVars, shareVars, bubVars, storeVars, traceVars>>

\* handleShare(): LadderShare.share(elements.canvas, state.ladderData), which
\* reads the ladder to draw the picture it saves; the share button is
\* inside the result section
HandleShare ==
    /\ ~resultSectionHidden
    /\ generateCalled' = FALSE
    /\ UNCHANGED <<participantsValue, resultsValue, ladderData, highlightIndex,
                   inputSectionHidden, resultSectionHidden, errorMessageHidden,
                   errorMessageText>>
    /\ UNCHANGED <<genVars, shVars, adjVars, plVars, fillVars, valVars, shareVars, bubVars, storeVars, traceVars>>

\* faulty variant: a click outside also drops the ladder
HandleDocumentClickClearing ==
    /\ \E inside \in BOOLEAN :
           IF resultSectionHidden \/ highlightIndex < 0
           THEN UNCHANGED <<highlightIndex, ladderData>>
           ELSE IF ~inside
           THEN highlightIndex' = 0 - 1 /\ ladderData' = Null
           ELSE UNCHANGED <<highlightIndex, ladderData>>
    /\ generateCalled' = FALSE
    /\ UNCHANGED <<participantsValue, resultsValue, inputSectionHidden,
                   resultSectionHidden, errorMessageHidden, errorMessageText>>
    /\ UNCHANGED <<genVars, shVars, adjVars, plVars, fillVars, valVars, shareVars, bubVars, storeVars, traceVars>>

\* handleDocumentClick(event); inside: the target is in the result summary
\* or in the canvas
HandleDocumentClick ==
    /\ \E inside \in BOOLEAN :
           IF resultSectionHidden \/ highlightIndex < 0
           THEN UNCHANGED highlightIndex
           ELSE IF ~inside
           THEN highlightIndex' = 0 - 1
           ELSE UNCHANGED highlightIndex
    /\ generateCalled' = FALSE
    /\ UNCHANGED <<participantsValue, resultsValue, ladderData, inputSectionHidden,
                   resultSectionHidden, errorMessageHidden, errorMessageText>>
    /\ UNCHANGED <<genVars, shVars, adjVars, plVars, fillVars, valVars, shareVars, bubVars, storeVars, traceVars>>

Init == AppStart /\ StoreStart /\ GenIdle /\ ShIdle /\ AdjIdle /\ PlIdle /\ FillIdle /\ ValIdle /\ ShareIdle /\ BubIdle /\ TraceIdle /\ TraceIdle

Next ==
    \/ HandleParticipantsInput
    \/ HandleResultsInput
    \/ StartButtonClick
    \/ ResetButtonClick
    \/ KeyDownCtrlEnter
    \/ KeyDownEscape
    \/ HandleResultItemClick
    \/ HandleCanvasClick
    \/ HandleShare
    \/ HandleDocumentClick
    \/ HandleCsvImport
    \/ ReaderOnload
    \/ PageLoad

Spec == Init /\ [][Next]_vars

\* =====================================================================
\* Properties
\* =====================================================================
RungSet(lines) == {lines[k] : k \in 1 .. Len(lines)}
Touched(l) == {l.fromColumn, l.fromColumn + 1}

\* the walk of section 4.3 over a set of rungs: right on a rung that starts
\* at the current column, else left on a rung that starts one column to the
\* left, else stay
RECURSIVE RungWalk(_, _, _, _)
RungWalk(rungs, rows, row, col) ==
    IF ~(row < rows) THEN col
    ELSE RungWalk(rungs, rows, row + 1,
                  IF Line(col, row) \in rungs THEN col + 1
                  ELSE IF Line(col - 1, row) \in rungs THEN col - 1
                  ELSE col)

IsPermutationOf(m, n) ==
    /\ DOMAIN m = 0 .. n - 1
    /\ {m[k] : k \in DOMAIN m} = 0 .. n - 1
    /\ \A a, b \in DOMAIN m : m[a] = m[b] => a = b

IsIdentity(m) == \A k \in DOMAIN m : m[k] = k

\* within every row, distinct rungs (distinct list entries) touch disjoint columns
RowDisjoint(lines) ==
    \A i, j \in 1 .. Len(lines) :
        (i # j /\ lines[i].row = lines[j].row)
            => Touched(lines[i]) \cap Touched(lines[j]) = {}

\* C1 Path-trace consistency: in the structure returned by generate, walking
\* rows 0..rows-1 of horizontalLines from every start column s ends in
\* column mapping[s].
C1_PathTraceConsistency ==
    pc = "done" =>
        \A s \in 0 .. ladder.verticalLines - 1 :
            RungWalk(RungSet(ladder.horizontalLines), ladder.rows, 0, s)
                = ladder.mapping[s]

\* a returned ladder with natural, adjustment and decorative rungs whose
\* mapping moves every one of four participants
C1_Witness ==
    /\ pc = "done" /\ numColumns = 4
    /\ horizontalLines # <<>> /\ Len(adjustments) >= 2
    /\ Len(filledLines) > Len(finalLines)
    /\ \A s \in 0 .. 3 : ladder.mapping[s] # s

\* C2 Bijectivity: the mapping returned by generateRandomMapping, and the
\* mapping of the structure returned by generate, is a permutation of
\* 0..N-1: keys exactly 0..N-1, no value repeated, none missing.
C2_Bijectivity ==
    /\ pc \in {"adjust", "place", "fill", "sort", "done"}
           => IsPermutationOf(targetMapping, numColumns)
    /\ pc = "done" => IsPermutationOf(ladder.mapping, Len(ladder.participants))

C2_Witness ==
    /\ pc = "done" /\ Len(ladder.participants) = 3
    /\ ladder.mapping = (0 :> 2 @@ 1 :> 0 @@ 2 :> 1)

\* C3 Row non-overlap: in the horizontalLines returned by generate, any two
\* distinct rungs of one row touch disjoint column sets, so no two rungs
\* of a row are equal or adjacent.
C3_RowNonOverlap ==
    pc = "done" => RowDisjoint(ladder.horizontalLines)

\* a returned ladder that holds all three kinds of rung, with two
\* adjustment rungs sharing a row (>= baseRows), a decorative rung sharing a
\* row with another rung, and two consecutive adjustments on neighbouring
\* columns
C3_Witness ==
    /\ pc = "done" /\ horizontalLines # <<>>
    /\ \E k \in 1 .. Len(adjustments) - 1 :
           adjustments[k] - adjustments[k + 1] \in {1, 0 - 1}
    /\ \E i, j \in Len(horizontalLines) + 1 .. Len(finalLines) :
           i # j /\ finalLines[i].row = finalLines[j].row
    /\ \E l \in RungSet(finalLines), d \in RungSet(filledLines) \ RungSet(finalLines) :
           l.row = d.row

\* the shuffle run on a given sequence of choices: c[k] is the j drawn in
\* the k-th iteration, the one with i = n - k
RECURSIVE ShuffleWith(_, _, _, _)
ShuffleWith(sh, i, n, c) ==
    IF i > 0 THEN ShuffleWith(ShuffleSwap(sh, i, c[n - i]), i - 1, n, c) ELSE sh

MappingWith(n, c) == MappingOf(ShuffleWith(Keys(n), n - 1, n, c), n)

\* one j in 0..i for every i from n-1 down to 1
ChoiceSeqs(n) ==
    {c \in [1 .. n - 1 -> 0 .. n - 1] : \A k \in 1 .. n - 1 : c[k] \in 0 .. n - k}

\* C4 Uniformity of the target sampler: the loop runs i from N-1 down to 1
\* and draws j in 0..i; every returned mapping is a permutation produced by
\* exactly one choice sequence, and there are as many choice sequences as
\* permutations, so choice sequences and permutations correspond one to one.
C4_ShuffleBijection ==
    /\ shPc = "loop" => shI = shN - 1 - Len(shChoices)
    /\ \A k \in 1 .. Len(shChoices) : shChoices[k] \in 0 .. shN - k
    /\ shPc = "done" =>
        /\ Len(shChoices) = shN - 1
        /\ shMapping \in PermutationsOf(shN)
        /\ {c \in ChoiceSeqs(shN) : MappingWith(shN, c) = shMapping} = {shChoices}
        /\ Cardinality(ChoiceSeqs(shN)) = Cardinality(PermutationsOf(shN))

\* a finished shuffle of four elements that moved every element
C4_Witness ==
    /\ shPc = "done" /\ shN = 4
    /\ \A k \in 0 .. 3 : shMapping[k] # k

\* one rung between columns col and col+1 acting on the arrangement
\* participant -> position
SwapPositions(posOf, col) ==
    [p \in DOMAIN posOf |->
        IF posOf[p] = col THEN col + 1
        ELSE IF posOf[p] = col + 1 THEN col
        ELSE posOf[p]]

RECURSIVE ApplyTranspositions(_, _, _)
ApplyTranspositions(posOf, ts, k) ==
    IF k > Len(ts) THEN posOf
    ELSE ApplyTranspositions(SwapPositions(posOf, ts[k]), ts, k + 1)

\* C5 Adjustment correctness: the returned columns, applied in emission
\* order as swaps of positions col and col+1 to the arrangement of actual,
\* give the arrangement of target; every column is in 0..N-2.
C5_AdjustmentCorrect ==
    adjPc = "done" =>
        /\ \A k \in 1 .. Len(adjTranspositions) : adjTranspositions[k] \in 0 .. adjN - 2
        /\ ApplyTranspositions(adjActual, adjTranspositions, 1) = adjTarget

C5_Witness ==
    /\ adjPc = "done" /\ adjN = 4 /\ Len(adjTranspositions) >= 3
    /\ ~IsIdentity(adjActual) /\ ~IsIdentity(adjTarget)

\* pairs of participants that stand in opposite order in the two arrangements
Inversions(a, b, n) ==
    Cardinality({pq \in (0 .. n - 1) \X (0 .. n - 1) :
                    a[pq[1]] < a[pq[2]] /\ b[pq[1]] > b[pq[2]]})

\* the least number of adjacent swaps that lead from some arrangement of
\* `frontier` to `target`, by breadth-first search
RECURSIVE SwapDistance(_, _, _, _)
SwapDistance(frontier, target, n, k) ==
    IF target \in frontier THEN k
    ELSE SwapDistance(frontier \cup {SwapPositions(a, c) : a \in frontier, c \in 0 .. n - 2},
                      target, n, k + 1)

\* C6 Adjustment minimality: the length of the returned list is the least
\* number of adjacent transpositions that turn actual into target, which is
\* the number of inversions between them; it is at most N(N-1)/2 and 0 when
\* actual = target.
C6_AdjustmentMinimal ==
    adjPc = "done" =>
        /\ Len(adjTranspositions) = SwapDistance({adjActual}, adjTarget, adjN, 0)
        /\ Len(adjTranspositions) = Inversions(adjActual, adjTarget, adjN)
        /\ 2 * Len(adjTranspositions) <= adjN * (adjN - 1)
        /\ adjActual = adjTarget => adjTranspositions = <<>>

\* the longest list: target reverses actual on four columns
C6_Witness ==
    /\ adjPc = "done" /\ adjN = 4
    /\ 2 * Len(adjTranspositions) = adjN * (adjN - 1)

\* the rung placed for the i-th transposition
PlacedLine(i) == plState.result[Len(plLines) + i]

\* C7 Placement order: the i-th transposition is placed as a rung of its
\* column in a row >= startRow and >= the row of every earlier one; two
\* transpositions that share a column are in strictly increasing rows.
C7_PlacementOrder ==
    /\ plPc \in {"loop", "done"} =>
        /\ Len(plState.result) = Len(plLines) + plK - 1
        /\ \A i \in 1 .. plK - 1 :
            /\ PlacedLine(i).fromColumn = plTranspositions[i]
            /\ PlacedLine(i).row >= plStartRow
            /\ \A h \in 1 .. i - 1 :
                /\ PlacedLine(h).row <= PlacedLine(i).row
                /\ Touched(PlacedLine(h)) \cap Touched(PlacedLine(i)) # {}
                       => PlacedLine(h).row < PlacedLine(i).row
    /\ plPc = "done" => plOut.lines = plState.result

\* four transpositions placed, two of them in one row and two that share a
\* column
C7_Witness ==
    /\ plPc = "done" /\ Len(plTranspositions) = 4
    /\ \E h, i \in 1 .. 4 : h < i /\ PlacedLine(h).row = PlacedLine(i).row
    /\ \E h, i \in 1 .. 4 :
           /\ h < i /\ plTranspositions[h] # plTranspositions[i]
           /\ Touched(PlacedLine(h)) \cap Touched(PlacedLine(i)) # {}

\* C8 Decorative-fill neutrality: tracing all columns over rows
\* 0..numRows-1 gives the same permutation through the filled rung list as
\* through the input list.
C8_FillNeutral ==
    fillPc = "done" =>
        calculateMapping(fillNumColumns, fillNumRows, fillOut)
            = calculateMapping(fillNumColumns, fillNumRows, fillLines)

\* pairs were added to a rung list that moves some column
C8_Witness ==
    /\ fillPc = "done" /\ Len(fillOut) >= Len(fillLines) + 4
    /\ ~IsIdentity(calculateMapping(fillNumColumns, fillNumRows, fillLines))

\* the rungs of fillOut other than the two of the pair (c, r), (c, r+1)
\* leave columns c and c+1 alone in rows r and r+1
PairAlone(c, r) ==
    \A h \in 1 .. Len(fillOut) :
        (fillOut[h] \notin {Line(c, r), Line(c, r + 1)} /\ fillOut[h].row \in {r, r + 1})
            => Touched(fillOut[h]) \cap {c, c + 1} = {}

\* C9 The filler keeps the row invariant: a row-disjoint input gives a
\* row-disjoint output; every input rung is retained; every added rung
\* belongs to a pair (col,row),(col,row+1) with row odd, row+1 <= numRows-1
\* and col, col+1 untouched by any other rung in both rows.
C9_FillKeepsRows ==
    fillPc = "done" =>
        /\ RowDisjoint(fillLines) => RowDisjoint(fillOut)
        /\ Len(fillOut) >= Len(fillLines)
        /\ SubSeq(fillOut, 1, Len(fillLines)) = fillLines
        /\ \A k \in Len(fillLines) + 1 .. Len(fillOut) :
               \E c \in 0 .. fillNumColumns - 2, r \in 1 .. fillNumRows - 2 :
                   /\ r % 2 = 1
                   /\ fillOut[k] \in {Line(c, r), Line(c, r + 1)}
                   /\ \E a, b \in Len(fillLines) + 1 .. Len(fillOut) :
                          fillOut[a] = Line(c, r) /\ fillOut[b] = Line(c, r + 1)
                   /\ PairAlone(c, r)

\* a row-disjoint input with a rung in a row where a pair was added beside it
C9_Witness ==
    /\ fillPc = "done" /\ RowDisjoint(fillLines)
    /\ Len(fillOut) > Len(fillLines)
    /\ \E h \in 1 .. Len(fillLines), k \in Len(fillLines) + 1 .. Len(fillOut) :
           fillOut[h].row = fillOut[k].row

\* what validateInputs says about the current textarea values
CurrentValidationError ==
    validateInputs(parseTextareaLines(participantsValue),
                   parseTextareaLines(resultsValue))

\* C10 Rejection before generation: a handleStart step on input that fails
\* validation does not call Ladder.generate, leaves state.ladderData and
\* state.highlightIndex unchanged, leaves the input section visible and the
\* result section hidden as it was, and shows the validation message.
C10_RejectionBeforeGeneration ==
    [][(CurrentValidationError # Null /\ HandleStart) =>
          /\ ~generateCalled'
          /\ ladderData' = ladderData
          /\ highlightIndex' = highlightIndex
          /\ ~inputSectionHidden /\ ~inputSectionHidden'
          /\ resultSectionHidden' = resultSectionHidden
          /\ ~errorMessageHidden'
          /\ errorMessageText' = CurrentValidationError]_vars

\* a start was rejected for a single participant: the message is shown, no
\* ladder is stored and the input section is still visible
C10_Witness ==
    /\ Len(parseTextareaLines(participantsValue)) = 1
    /\ Len(parseTextareaLines(resultsValue)) = 2
    /\ ~errorMessageHidden
    /\ errorMessageText = ErrorMessage("min participants", 0, 0)
    /\ ladderData = Null /\ ~generateCalled /\ ~inputSectionHidden

\* two entries of the list are the same string
HasDuplicate(list) == \E i, j \in 1 .. Len(list) : i < j /\ list[i] = list[j]

\* the five conditions under which the inputs are refused
Refused(participantList, resultList) ==
    \/ Len(participantList) < 2
    \/ Len(resultList) < 2
    \/ Len(participantList) # Len(resultList)
    \/ Len(participantList) > 100
    \/ HasDuplicate(participantList)

\* C11: validateInputs returns an error exactly when there are fewer than 2
\* participants, fewer than 2 results, different counts, more than 100
\* participants or a repeated participant name; for every other pair of
\* lists, duplicate results included, it returns null and handleStart goes
\* on to generate.
C11_ValidationConditions ==
    valPc = "done" =>
        /\ (valError # Null) <=> Refused(valParticipants, valResults)
        /\ valProceeds <=> ~Refused(valParticipants, valResults)

\* 100 distinct participants with 100 equal results are accepted
C11_Witness ==
    /\ valPc = "done"
    /\ Len(valParticipants) = 100 /\ Len(valResults) = 100
    /\ HasDuplicate(valResults)
    /\ valError = Null /\ valProceeds

\* b is the stage right after a in the order
Follows(order, a, b) == \E k \in 1 .. Len(order) - 1 : order[k] = a /\ order[k + 1] = b

\* a step of generate: the stage changes to the next one of the order, and
\* the natural rungs, the traced mapping, the target, the transpositions,
\* the placed rungs and the filled rungs are each assigned in their own stage
StepsFollow(order) ==
    /\ pc' # pc => Follows(order, pc, pc')
    /\ horizontalLines' # horizontalLines => pc = "natural"
    /\ actualMapping' # actualMapping => pc = "trace"
    /\ targetMapping' # targetMapping => pc = "sample"
    /\ adjustments' # adjustments => pc = "adjust"
    /\ (finalLines' # finalLines \/ numRows' # numRows) => pc = "place"
    /\ filledLines' # filledLines => pc \in {"fill", "sort"}
    /\ ladder' # ladder => pc = "sort"

\* the order of section 4.7, after the row count is determined
OrderOfSection47 ==
    <<"rows", "sample", "natural", "trace", "adjust", "place", "fill", "sort", "done">>

\* the order with the target sampled after the trace
OrderTargetAfterTrace ==
    <<"rows", "natural", "trace", "sample", "adjust", "place", "fill", "sort", "done">>

\* C12 as stated: the stages run once each in the order SAMPLE_TARGET,
\* GENERATE_NATURAL, TRACE_ACTUAL, COMPUTE_ADJUSTMENTS, PLACE_ADJUSTMENTS,
\* FILL_DECORATIVE, SORT_AND_FINALIZE; the target is sampled before the
\* natural rungs are generated and traced.
C12_OrderAsStated == [][StepsFollow(OrderOfSection47)]_vars

\* C12 (amended): the stages run once each, none repeated or retried, in the
\* order GENERATE_NATURAL, TRACE_ACTUAL, SAMPLE_TARGET, COMPUTE_ADJUSTMENTS,
\* PLACE_ADJUSTMENTS, FILL_DECORATIVE, SORT_AND_FINALIZE; the target is
\* sampled after the natural rungs are generated and traced.
C12_OrchestrationOrder == [][StepsFollow(OrderTargetAfterTrace)]_vars

\* a call that has run every stage: natural rungs, a target that differs
\* from the traced mapping, adjustment rungs and decorative pairs
C12_Witness ==
    /\ pc = "done" /\ ladder # Null
    /\ Len(horizontalLines) > 0
    /\ actualMapping # targetMapping
    /\ Len(adjustments) > 0
    /\ Len(filledLines) > Len(finalLines)

\* an assignment of rows 0..r-1 to the transpositions: rows never decrease
\* along the list, and two rungs of one row touch no common column
PacksInto(transpositions, r) ==
    \E f \in [1 .. Len(transpositions) -> 0 .. r - 1] :
        /\ \A i, j \in 1 .. Len(transpositions) : i < j => f[i] <= f[j]
        /\ \A i, j \in 1 .. Len(transpositions) :
               (i < j /\ f[i] = f[j]) =>
                   {transpositions[i], transpositions[i] + 1}
                       \cap {transpositions[j], transpositions[j] + 1} = {}

\* the least number of rows the list can be placed in
MinRows(transpositions) ==
    SetMin({r \in 0 .. Len(transpositions) : PacksInto(transpositions, r)})

\* C13 as stated: for every transposition list and startRow, numRows -
\* startRow of addAdjustmentLines' result is the least number of rows the
\* list can be placed in without two rungs of a row touching a common column
\* and with non-decreasing rows in list order; the empty list adds no row.
C13_MinimalAsStated ==
    plPc = "done" => plOut.numRows - plStartRow = MinRows(plTranspositions)

\* C13 (amended): for every non-empty transposition list and startRow,
\* numRows - startRow is that least number of rows; for the empty list it
\* is 1.
C13_MinimalRowPacking ==
    plPc = "done" =>
        plOut.numRows - plStartRow =
            IF plTranspositions = <<>> THEN 1 ELSE MinRows(plTranspositions)

\* four transpositions packed into two rows, less than one row each
C13_Witness ==
    /\ plPc = "done"
    /\ plTranspositions = <<0, 2, 0, 2>>
    /\ plOut.numRows - plStartRow = 2

\* C14: for every ladder whose generateShareableURL result is not null,
\* parseShareableURL of that URL returns participants and results equal,
\* element by element and in order, to the ladder's.
C14_ShareRoundTrip ==
    sharePc = "parsed" =>
        /\ shareParsed # Null
        /\ shareParsed.participants = shareLadder.participants
        /\ shareParsed.results = shareLadder.results

\* the ladder structures with the participants and results of the shared
\* ladder and other rungs, mapping or row count
SameInputLadders ==
    {[shareLadder EXCEPT !.horizontalLines = layout.lines,
                         !.mapping = layout.mapping,
                         !.rows = rows] :
        layout \in ShareLayouts, rows \in {shareLadder.rows, shareLadder.rows + 1}}

\* C15: the shareable link carries only the inputs: ladder structures with
\* the same participants and results but different horizontalLines, rows or
\* mapping give the same generateShareableURL result, and the decoded data
\* holds participants and results and nothing else.
C15_LinkCarriesInputsOnly ==
    /\ sharePc = "url" =>
           \A other \in SameInputLadders :
               generateShareableURL(other, shareLocation) = shareUrl
    /\ (sharePc = "parsed" /\ shareParsed # Null) =>
           DOMAIN shareParsed = {"participants", "results"}

\* a link was generated for a ladder with a rung and the swap as mapping,
\* and parsed
C15_Witness ==
    /\ sharePc = "parsed" /\ shareUrl # Null /\ shareParsed # Null
    /\ shareLadder.horizontalLines # <<>>
    /\ shareLadder.mapping[0] = 1

\* every rung comes strictly after the one before it: a later row, or the
\* same row and a larger fromColumn
StrictlyOrdered(lines) ==
    \A k \in 1 .. Len(lines) - 1 :
        \/ lines[k].row < lines[k + 1].row
        \/ (lines[k].row = lines[k + 1].row /\ lines[k].fromColumn < lines[k + 1].fromColumn)

\* C16: in the structure generate returns, horizontalLines is ordered by row
\* ascending and, within a row, by fromColumn ascending, and no two of its
\* rungs have the same row and fromColumn.
C16_SortedRungs ==
    pc = "done" =>
        /\ StrictlyOrdered(ladder.horizontalLines)
        /\ \A i, j \in 1 .. Len(ladder.horizontalLines) :
               (/\ i # j
                /\ ladder.horizontalLines[i].row = ladder.horizontalLines[j].row
                /\ ladder.horizontalLines[i].fromColumn = ladder.horizontalLines[j].fromColumn)
                   => FALSE

\* a returned ladder whose rungs were out of order before the sort: a
\* decorative rung, appended after the placed rungs, is in the row of a
\* placed rung and to the left of it
C16_Witness ==
    /\ pc = "done"
    /\ \E l \in RungSet(finalLines),
          d \in RungSet(ladder.horizontalLines) \ RungSet(finalLines) :
           l.row = d.row /\ d.fromColumn < l.fromColumn

\* C17: for every valid input of length N, generate returns verticalLines =
\* N and rows >= 6; for N = 2 both mappings, the identity and the swap, are
\* possible outcomes: each can be sampled as the target, and the target
\* sampled is the mapping returned.
C17_Dimensions ==
    /\ pc = "done" =>
           /\ ladder.verticalLines = Len(participants)
           /\ ladder.rows >= 6
           /\ ladder.mapping = targetMapping
    /\ (pc = "sample" /\ numColumns = 2) =>
           \A m \in PermutationsOf(2) : m \in generateRandomMapping(numColumns)

\* a returned two-column ladder with the swap as its mapping
C17_Witness ==
    /\ pc = "done" /\ Len(participants) = 2
    /\ ladder.verticalLines = 2 /\ ladder.rows >= 6
    /\ ladder.mapping[0] = 1 /\ ladder.mapping[1] = 0

\* C18: once handleStart has stored a ladder in state.ladderData, result-item
\* clicks, canvas clicks, document clicks and share actions (with the
\* renders they cause) leave its participants, results, rows,
\* horizontalLines and mapping as they are; the ladder changes only when a
\* successful start stores a new one or reset clears it.
C18_ReadOnlyLadder ==
    [][/\ (HandleResultItemClick \/ HandleCanvasClick \/ HandleDocumentClick \/ HandleShare)
            => ladderData' = ladderData
       /\ (ladderData # Null /\ ladderData' # ladderData)
            => \/ ladderData' # Null /\ generateCalled'
               \/ /\ ladderData' = Null
                  /\ ~resultSectionHidden /\ resultSectionHidden'
                  /\ highlightIndex' = 0 - 1]_vars

\* a ladder is on display with a path highlighted after clicks
C18_Witness ==
    /\ ladderData # Null /\ ~resultSectionHidden
    /\ highlightIndex = 1
    /\ ~generateCalled
    /\ ladderData.horizontalLines # <<>>

C20_Termination ==
    /\ <>(bubPc = "done" /\ plPc = "done")
    /\ [](bubPc = "while" => bubCurrentPos >= bubPos)
    /\ [](plPc = "done" =>
            /\ Len(plOut.lines) = Len(plTranspositions)
            /\ \A k \in 1 .. Len(plTranspositions) :
                   plOut.lines[k].fromColumn = plTranspositions[k])

\* both loops have ended after a participant was bubbled over two positions
\* and three rungs were placed
C20_Witness ==
    /\ bubPc = "done" /\ plPc = "done"
    /\ bubTranspositions = <<1, 0, 1>>
    /\ Len(plOut.lines) = 3

\* C21 Restore from a shared link: when the page is opened at a URL that
\* generateShareableURL produced and that parseShareableURL decodes, the
\* textareas hold the decoded participants and results after init().
C21_RestoreFromLink ==
    (sharePc = "opened" /\ shareParsed # Null) =>
        /\ participantsValue = shareParsed.participants
        /\ resultsValue = shareParsed.results

\* C22 Input auto-save: an input event and a completed CSV import leave, when
\* localStorage is available, both items equal to the textarea values, and
\* run to their end (the error message is hidden) whether or not storage is
\* available; init() loads each saved non-empty item into its textarea.
C22_AutoSave ==
    [][/\ (HandleParticipantsInput \/ HandleResultsInput \/ ReaderOnload) =>
            /\ storageAvailable =>
                   /\ storedParticipants' = Text(participantsValue')
                   /\ storedResults' = Text(resultsValue')
            /\ errorMessageHidden'
       /\ PageLoad =>
            /\ (storageAvailable /\ storedParticipants # Null
                    /\ storedParticipants # Text(<<<<>>>>))
                  => Text(participantsValue') = storedParticipants
            /\ (storageAvailable /\ storedResults # Null
                    /\ storedResults # Text(<<<<>>>>))
                  => Text(resultsValue') = storedResults]_vars

\* after a CSV import into the results textarea and typing in the other
\* one, both items hold the textarea values: "a" and "b" on two lines for
\* the results
C22_Witness ==
    /\ storageAvailable /\ pendingReads = {}
    /\ ladderData = Null /\ errorMessageHidden
    /\ errorMessageText = Null
    /\ resultsValue = <<<<"a">>, <<"b">>>>
    /\ participantsValue = <<<<" ", "a">>, <<"b">>>>
    /\ storedParticipants = Text(participantsValue)
    /\ storedResults = Text(resultsValue)

\* what the rule of section 4.3 gives for the rung list handed to
\* calculateMapping
RuleMapping ==
    [s \in 0 .. trNumColumns - 1 |-> RungWalk(RungSet(trLines), trNumRows, 0, s)]

\* no row holds two rungs whose fromColumns are neighbours
NoNeighbouringRungs(lines) ==
    \A i, j \in 1 .. Len(lines) :
        lines[i].row = lines[j].row => lines[i].fromColumn # lines[j].fromColumn + 1

WaypointsOfRow(path, row) == {k \in 1 .. Len(path) : path[k].row = row}

\* row r of a path over a set of rungs: one untagged waypoint when no rung
\* of the row touches the column the path arrives in, else a beforeMove
\* waypoint there followed by an afterMove waypoint one column away, the
\* two joined by a rung of the row
RowWaypointsOk(path, rungs, row) ==
    LET at == WaypointsOfRow(path, row)
        first == SetMin(at)
        col == path[first].col
    IN /\ at # {}
       /\ col = path[first - 1].col
       /\ IF Line(col, row) \in rungs \/ Line(col - 1, row) \in rungs
          THEN /\ at = {first, first + 1}
               /\ path[first].tag = "beforeMove"
               /\ path[first + 1].tag = "afterMove"
               /\ \/ path[first + 1].col = col + 1 /\ Line(col, row) \in rungs
                  \/ path[first + 1].col = col - 1 /\ Line(col - 1, row) \in rungs
          ELSE at = {first} /\ path[first].tag = "none"

C25_NaturalGeneration ==
    /\ pc \notin {"rows", "natural"} =>
          /\ \A k \in 1 .. Len(horizontalLines) :
                 horizontalLines[k].row \in 1 .. baseRows - 1
          /\ RowDisjoint(horizontalLines)
    /\ finalLines # Unset =>
          /\ baseRows >= MIN_ROWS
          /\ \A k \in Len(horizontalLines) + 1 .. Len(finalLines) :
                 finalLines[k].row >= baseRows
    /\ filledLines # Unset =>
          \A k \in Len(finalLines) + 1 .. Len(filledLines) : filledLines[k].row >= 1
    /\ pc = "done" =>
          \A k \in 1 .. Len(ladder.horizontalLines) : ladder.horizontalLines[k].row # 0

\* a returned three-column ladder with natural rungs in rows 1 and
\* baseRows-1, an adjustment rung and a decorative pair
C25_Witness ==
    /\ pc = "done" /\ numColumns = 3
    /\ \E k \in 1 .. Len(horizontalLines) : horizontalLines[k].row = 1
    /\ \E k \in 1 .. Len(horizontalLines) : horizontalLines[k].row = baseRows - 1
    /\ Len(finalLines) > Len(horizontalLines)
    /\ Len(filledLines) > Len(finalLines)

\* every rung of the list lies in the bucket of exactly one of the rows
\* 0..rows-1 that the tracers build
RECURSIVE BucketSizes(_, _, _)
BucketSizes(lines, rows, row) ==
    IF ~(row < rows) THEN 0
    ELSE Len(LinesByRow(lines, rows, row)) + BucketSizes(lines, rows, row + 1)

\* C26 Rung bounds: every rung of a returned ladder has 0 <= fromColumn <= N-2
\* and 1 <= row <= rows-1, so that no rung is left out of the per-row
\* lookup of tracePath and calculateMapping and the renderer's lookup finds a
\* bucket for every rung.
C26_RungBounds ==
    pc = "done" =>
        /\ \A k \in 1 .. Len(ladder.horizontalLines) :
               /\ ladder.horizontalLines[k].fromColumn \in 0 .. Len(ladder.participants) - 2
               /\ ladder.horizontalLines[k].row \in 1 .. ladder.rows - 1
        /\ BucketSizes(ladder.horizontalLines, ladder.rows, 0) = Len(ladder.horizontalLines)
        /\ \A s \in 0 .. ladder.verticalLines - 1 : computeHighlightPath(ladder, s).ok

\* a returned ladder with rungs in the last row and in the first and the
\* last pair of columns
C26_Witness ==
    /\ pc = "done" /\ numColumns = 4
    /\ \E k \in 1 .. Len(ladder.horizontalLines) :
           ladder.horizontalLines[k].row = ladder.rows - 1
    /\ \E k \in 1 .. Len(ladder.horizontalLines) :
           ladder.horizontalLines[k].fromColumn = 0
    /\ \E k \in 1 .. Len(ladder.horizontalLines) :
           ladder.horizontalLines[k].fromColumn = numColumns - 2

\* C27 Tracers agree: for every ladder generate returns and every start
\* column s, computeHighlightPath returns a path whose endCol equals the
\* column of the last waypoint of tracePath and mapping[s], which is the
\* result column drawResults highlights and the resultIndex (with its
\* result) getAllResults gives for participant s.
C27_TracersAgree ==
    pc = "done" =>
        \A s \in 0 .. ladder.verticalLines - 1 :
            LET highlightPath == computeHighlightPath(ladder, s)
                path == tracePath(ladder, s)
                item == getAllResults(ladder)[s + 1]
            IN /\ highlightPath.ok
               /\ highlightPath.val.endCol = path[Len(path)].col
               /\ highlightPath.val.endCol = ladder.mapping[s]
               /\ item.participantIndex = s
               /\ item.resultIndex = highlightPath.val.endCol
               /\ item.result = ladder.results[highlightPath.val.endCol + 1]

\* a returned four-column ladder in which every highlighted path marks
\* rungs and ends in a column other than the one it starts in
C27_Witness ==
    /\ pc = "done" /\ numColumns = 4
    /\ \A s \in 0 .. 3 :
           LET highlightPath == computeHighlightPath(ladder, s)
           IN /\ highlightPath.ok
              /\ highlightPath.val.endCol # s
              /\ Cardinality(highlightPath.val.horizontal) >= 2
              /\ Cardinality(highlightPath.val.vertical) = ladder.rows + 1

\* the values a selection of some participant of the current ladder can
\* leave in highlightIndex: i when it was not i, -1 when it was i
Toggled ==
    {IF highlightIndex = i THEN 0 - 1 ELSE i : i \in 0 .. Len(ladderData.participants) - 1}

\* highlightIndex is -1 or an index of the current ladder
HighlightInRange ==
    \/ highlightIndex = 0 - 1
    \/ /\ ladderData # Null
       /\ highlightIndex \in 0 .. Len(ladderData.participants) - 1

\* C28 Highlight state invariant: after any sequence of events
\* state.highlightIndex is -1 or an index 0..N-1 of the current ladder, in
\* which case state.ladderData is not null; when handleStart stores a new
\* ladder highlightIndex is -1.
C28_HighlightInvariant ==
    /\ HighlightInRange
    /\ [][/\ HighlightInRange'
          /\ generateCalled' => (ladderData' # Null /\ highlightIndex' = 0 - 1)]_vars

\* a ladder has just been stored, after a start that was rejected
C28_Witness ==
    /\ generateCalled /\ ladderData # Null /\ highlightIndex = 0 - 1
    /\ ~resultSectionHidden
    /\ errorMessageText # Null
    /\ ladderData.mapping[0] = 1

C30_ViewLadderCorrespondence ==
    /\ inputSectionHidden # resultSectionHidden
    /\ (ladderData # Null) = ~resultSectionHidden
    /\ [][/\ inputSectionHidden' # resultSectionHidden'
          /\ (ladderData' # Null) = ~resultSectionHidden'
          /\ generateCalled' => ~inputSectionHidden
          /\ (inputSectionHidden /\ KeyDownCtrlEnter) =>
                UNCHANGED <<ladderData, highlightIndex, inputSectionHidden,
                            resultSectionHidden, errorMessageHidden, errorMessageText>>
          /\ (resultSectionHidden /\ KeyDownEscape) =>
                UNCHANGED <<ladderData, highlightIndex, inputSectionHidden,
                            resultSectionHidden, errorMessageHidden, errorMessageText>>
          /\ (~resultSectionHidden /\ (KeyDownEscape \/ ResetButtonClick)) =>
                /\ ladderData' = Null /\ highlightIndex' = 0 - 1
                /\ ~inputSectionHidden' /\ resultSectionHidden']_vars

\* back in the input view after a reset, with the texts that gave the
\* ladder still in the textareas and saved
C30_Witness ==
    /\ ladderData = Null /\ ~inputSectionHidden /\ resultSectionHidden
    /\ highlightIndex = 0 - 1 /\ errorMessageHidden
    /\ errorMessageText # Null
    /\ CurrentValidationError = Null
    /\ storedResults = Text(resultsValue)

====
